---- MODULE Spec2Model ----
(***************************************************************************)
(* Verification model of the routing repository.                          *)
(*                                                                         *)
(* Part I   greenfield_v2 (Claude-Sonnet-4.5): Graph, DijkstraAlgorithm,   *)
(*          BellmanFordAlgorithm, AlgorithmSelector, ResultValidator,     *)
(*          IdempotencyCache, CircuitBreaker, retry, RoutingEngine.        *)
(* Part II  routing_v2 (Claude-haiku-4.5): Graph, dijkstra_shortest_path,  *)
(*          bellman_ford_shortest_path, _validate_graph, RoutingService.   *)
(*                                                                         *)
(* Node identifiers are the naturals 1..MaxNode; their numeric order is    *)
(* the string order of the names "A" < "B" < ... that Python's heapq uses  *)
(* to break ties between equal costs.  A Python dict is a sequence of      *)
(* <<key, value>> pairs in insertion order, so that iteration order is    *)
(* what the interpreter produces.                                          *)
(***************************************************************************)
EXTENDS Integers, Sequences, FiniteSets, TLC

VARIABLES
    adj,        \* greenfield Graph._adj: dict source -> dict target -> weight
    call,       \* outcome of the latest PathAlgorithm.compute call
    now,        \* time.time(), in seconds
    eng_cache,          \* RoutingEngine.cache: _cache and _access_order
    eng_breaker,        \* RoutingEngine.circuit_breaker
    eng_objs,           \* the RouteResponse objects created so far
    eng_calls,          \* the compute_route calls made so far
    svc_cache,          \* RoutingService.cache
    svc_access_times,   \* RoutingService.cache_access_times
    svc_last,           \* the latest call on the RoutingService
    svc_count,          \* number of calls made on the RoutingService
    idc,                \* an IdempotencyCache used on its own
    idc_used,           \* cache key -> number of the call that last used it
    idc_steps,          \* number of get and put calls made on idc
    idc_last,           \* the latest call on idc, with the cache before it
    brk,                \* a CircuitBreaker configured as the engine's
    brk_seen,           \* what the calls through brk amounted to so far
    brk_last,           \* the latest call through brk, attempt by attempt
    brk_steps,          \* number of calls made through brk
    thr_pc,             \* where each concurrent caller of brk.call stands
    apt_store,          \* raptor_secondary InMemoryAppointmentRepository._store
    apt_outbox,         \* raptor_secondary InMemoryOutboxRepository._events
    apt_breaker,        \* raptor_secondary AppointmentService.breaker
    apt_last,           \* the latest AppointmentService.process call
    apt_steps,          \* number of process calls made
    apt_pc,             \* where each concurrent caller of process stands
    apt_seen,           \* per request id, what the concurrent callers did
    rt_router,          \* oswe-mini-secondary Router, Nothing before it is built
    rt_last,            \* the latest Router.route call
    rt_steps,           \* number of route calls made
    sch_store,          \* oswe-mini-m22a1s385 AppointmentService.store
    sch_last,           \* the latest call on that AppointmentService
    sch_steps           \* number of calls made on it

algVars == <<adj, call>>

engVars == <<eng_cache, eng_breaker, eng_objs, eng_calls>>

svcVars == <<svc_cache, svc_access_times, svc_last, svc_count>>

cacheVars == <<idc, idc_used, idc_steps, idc_last>>

brkVars == <<brk, brk_seen, brk_last, brk_steps, thr_pc>>

aptVars == <<apt_store, apt_outbox, apt_breaker, apt_last, apt_steps>>

aptThreadVars == <<apt_pc, apt_seen>>

routerVars == <<rt_router, rt_last, rt_steps>>

schedVars == <<sch_store, sch_last, sch_steps>>

unitVars == <<cacheVars, brkVars, aptVars, aptThreadVars, routerVars, schedVars>>

vars == <<algVars, engVars, svcVars, unitVars, now>>

(***************************************************************************)
(* Bounds of the model.                                                    *)
(***************************************************************************)
\* graphs of mixed-sign weights: node names, number of add_edge calls
MaxNode == 3
MaxEdges == 3
Weights == {-1, 0, 2}

\* graphs of unit weights, where several minimum-cost paths tie
MaxTieNode == 4
MaxTieEdges == 4
TieWeights == {1}

\* float("inf"): larger than every finite distance of the model
Inf == 1000000

(***************************************************************************)
(* Python dict helpers (insertion-ordered).                                *)
(***************************************************************************)
Keys(d) == [i \in 1..Len(d) |-> d[i][1]]

KeySet(d) == {d[i][1] : i \in 1..Len(d)}

HasKey(d, k) == \E i \in 1..Len(d) : d[i][1] = k

IndexOf(d, k) == CHOOSE i \in 1..Len(d) : d[i][1] = k

Get(d, k, default) == IF HasKey(d, k) THEN d[IndexOf(d, k)][2] ELSE default

\* d[k] = v : an existing key keeps its position, a new key goes last
Put(d, k, v) ==
    IF HasKey(d, k)
    THEN [d EXCEPT ![IndexOf(d, k)] = <<k, v>>]
    ELSE Append(d, <<k, v>>)

(***************************************************************************)
(* greenfield_v2 core/graph.py                                             *)
(***************************************************************************)
\* Graph.add_edge
add_edge(a, source, target, weight) ==
    LET a1 == IF HasKey(a, source) THEN a ELSE Append(a, <<source, <<>> >>)
        a2 == Put(a1, source, Put(Get(a1, source, <<>>), target, weight))
    IN  IF HasKey(a2, target) THEN a2 ELSE Append(a2, <<target, <<>> >>)

\* Graph.neighbors
neighbors(a, node) == Get(a, node, <<>>)

\* Graph.nodes
nodes(a) == Keys(a)

RECURSIVE EdgesFrom(_, _)
EdgesFrom(a, i) ==
    IF i > Len(a) THEN <<>>
    ELSE [j \in 1..Len(a[i][2]) |-> <<a[i][1], a[i][2][j][1], a[i][2][j][2]>>]
         \o EdgesFrom(a, i + 1)

\* Graph.edges: (source, target, weight) in dict iteration order
edges(a) == EdgesFrom(a, 1)

\* (defect: only the edges of the first source are examined)
has_negative_weights_first_source(a) ==
    Len(a) > 0 /\ \E j \in 1..Len(a[1][2]) : a[1][2][j][2] < 0

\* Graph.has_negative_weights
has_negative_weights(a) ==
    \E i \in 1..Len(a) : \E j \in 1..Len(a[i][2]) : a[i][2][j][2] < 0

\* Graph.validate_nodes_exist: TRUE when no GraphValidationError is raised
validate_nodes_exist(a, ns) == \A n \in ns : HasKey(a, n)

NumEdges(a) == Len(edges(a))

(***************************************************************************)
(* Results of PathAlgorithm.compute.  status is "ok" for a returned        *)
(* (path, cost) and otherwise names the exception raised.                  *)
(***************************************************************************)
None == 0

NoCall == [alg |-> "none", start |-> None, goal |-> None, status |-> "none",
           path |-> <<>>, cost |-> 0, cycle |-> <<>>, cycle_cost |-> 0,
           finalized |-> {}]

\* finalized: the (node, cost) pairs Dijkstra added to its visited set
Returned(path, cost, finalized) ==
    [status |-> "ok", path |-> path, cost |-> cost, cycle |-> <<>>, cycle_cost |-> 0,
     finalized |-> finalized]

Raised(kind) ==
    [status |-> kind, path |-> <<>>, cost |-> 0, cycle |-> <<>>, cycle_cost |-> 0,
     finalized |-> {}]

RaisedCycle(cycle, cycle_cost) ==
    [status |-> "negative_cycle", path |-> <<>>, cost |-> 0,
     cycle |-> cycle, cycle_cost |-> cycle_cost, finalized |-> {}]

Reverse(s) == [i \in 1..Len(s) |-> s[Len(s) + 1 - i]]

\* _reconstruct_path: follow prev from goal until None, then reverse.  The
\* loop of the source has no bound; fuel counts its iterations and a chain
\* longer than the node set (a cycle in prev) is reported as <<>>.
RECURSIVE WalkPrev(_, _, _)
WalkPrev(prev, node, fuel) ==
    IF node = None THEN <<>>
    ELSE IF fuel = 0 THEN <<None>>
    ELSE <<node>> \o WalkPrev(prev, prev[node], fuel - 1)

reconstruct_path(prev, goal) ==
    LET back == WalkPrev(prev, goal, Cardinality(DOMAIN prev) + 1)
    IN  IF Len(back) > 0 /\ back[Len(back)] = None THEN <<>> ELSE Reverse(back)

\* dist[source] + weight with float infinity absorbing finite weights
Plus(d, w) == IF d = Inf THEN Inf ELSE d + w

(***************************************************************************)
(* greenfield_v2 core/algorithms/dijkstra.py                               *)
(***************************************************************************)
\* heapq.heappop on (cost, node) tuples: least cost, ties by node name
HeapMin(heap) ==
    CHOOSE e \in heap : \A f \in heap :
        e[1] < f[1] \/ (e[1] = f[1] /\ e[2] <= f[2])

\* One iteration of "for neighbor, weight in graph.neighbors(node).items()"
\* (the body that premarks the neighbour as visited is the v1 defect)
DijkstraRelaxOnDiscovery(st, cost, node, neighbor, weight) ==
    IF neighbor \in st.visited THEN st
    ELSE LET new_cost == cost + weight
         IN  IF new_cost < st.dist[neighbor]
             THEN [st EXCEPT !.dist[neighbor] = new_cost,
                             !.prev[neighbor] = node,
                             !.heap = @ \cup {<<new_cost, neighbor>>},
                             !.visited = @ \cup {neighbor}]
             ELSE st

DijkstraRelax(st, cost, node, neighbor, weight) ==
    IF neighbor \in st.visited THEN st
    ELSE LET new_cost == cost + weight
         IN  IF new_cost < st.dist[neighbor]
             THEN [st EXCEPT !.dist[neighbor] = new_cost,
                             !.prev[neighbor] = node,
                             !.heap = @ \cup {<<new_cost, neighbor>>}]
             ELSE st

RECURSIVE DijkstraRelaxAll(_, _, _, _, _)
DijkstraRelaxAll(st, cost, node, nbrs, j) ==
    IF j > Len(nbrs) THEN st
    ELSE DijkstraRelaxAll(DijkstraRelax(st, cost, node, nbrs[j][1], nbrs[j][2]),
                          cost, node, nbrs, j + 1)

\* the "while heap" loop
RECURSIVE DijkstraLoop(_, _, _)
DijkstraLoop(a, goal, st) ==
    IF st.heap = {} THEN Raised("no_path")
    ELSE LET top == HeapMin(st.heap)
             cost == top[1]
             node == top[2]
             popped == [st EXCEPT !.heap = @ \ {top}]
         IN  IF node \in st.visited THEN DijkstraLoop(a, goal, popped)
             ELSE LET fin == [popped EXCEPT !.visited = @ \cup {node},
                                            !.finalized = @ \cup {<<node, cost>>}]
                  IN  IF node = goal
                      THEN Returned(reconstruct_path(fin.prev, goal), cost,
                                    fin.finalized)
                      ELSE DijkstraLoop(a, goal,
                               DijkstraRelaxAll(fin, cost, node, neighbors(a, node), 1))

\* DijkstraAlgorithm.compute
DijkstraCompute(a, start, goal) ==
    IF has_negative_weights(a) THEN Raised("negative_weight")
    ELSE IF ~validate_nodes_exist(a, {start, goal}) THEN Raised("node_not_found")
    ELSE DijkstraLoop(a, goal,
             [dist |-> [n \in KeySet(a) |-> IF n = start THEN 0 ELSE Inf],
              prev |-> [n \in KeySet(a) |-> None],
              heap |-> {<<0, start>>},
              visited |-> {},
              finalized |-> {}])

(***************************************************************************)
(* greenfield_v2 core/algorithms/bellman_ford.py                           *)
(***************************************************************************)
\* (defect: an equal distance counts as an improvement)
RelaxableOrEqual(dist, e) == Plus(dist[e[1]], e[3]) <= dist[e[2]]

\* the relaxation test "dist[source] + weight < dist[target]"
Relaxable(dist, e) == Plus(dist[e[1]], e[3]) < dist[e[2]]

\* "for source, target, weight in graph.edges()": one pass, updating in place
RECURSIVE RelaxPass(_, _, _)
RelaxPass(es, i, st) ==
    IF i > Len(es) THEN st
    ELSE LET e == es[i]
         IN  IF Relaxable(st.dist, e)
             THEN RelaxPass(es, i + 1,
                      [dist |-> [st.dist EXCEPT ![e[2]] = Plus(st.dist[e[1]], e[3])],
                       prev |-> [st.prev EXCEPT ![e[2]] = e[1]],
                       updated |-> TRUE])
             ELSE RelaxPass(es, i + 1, st)

\* (defect: the loop leaves after its first pass whether or not it updated)
RelaxRoundsSinglePass(es, rounds, st) ==
    IF rounds <= 0 THEN st
    ELSE RelaxPass(es, 1, [st EXCEPT !.updated = FALSE])

\* "for _ in range(n - 1)" with the early exit on a pass without update
RECURSIVE RelaxRounds(_, _, _)
RelaxRounds(es, rounds, st) ==
    IF rounds <= 0 THEN st
    ELSE LET after == RelaxPass(es, 1, [st EXCEPT !.updated = FALSE])
         IN  IF ~after.updated THEN after
             ELSE RelaxRounds(es, rounds - 1, after)

\* first index >= i of an edge satisfying the predicate given as a set of
\* indices, 0 when there is none
FirstIndex(S) == IF S = {} THEN 0 ELSE CHOOSE i \in S : \A j \in S : i <= j

\* inner "for s, t, w in graph.edges(): if t == current and
\* dist[s] + w == dist[current]: current = s; break"
Predecessor(es, dist, current) ==
    LET k == FirstIndex({i \in 1..Len(es) :
                 es[i][2] = current /\ Plus(dist[es[i][1]], es[i][3]) = dist[current]})
    IN  IF k = 0 THEN current ELSE es[k][1]

\* "while current not in visited and len(cycle) < len(dist)"
RECURSIVE WalkBack(_, _, _, _, _)
WalkBack(es, dist, n, cycle, current) ==
    IF current \in {cycle[i] : i \in 1..Len(cycle)} \/ Len(cycle) >= n
    THEN cycle
    ELSE WalkBack(es, dist, n, Append(cycle, current), Predecessor(es, dist, current))

\* "for i in range(len(cycle) - 1)": weight of the first edge
\* cycle[i] -> cycle[i+1], nothing when there is no such edge
RECURSIVE CycleCost(_, _, _)
CycleCost(es, cycle, i) ==
    IF i > Len(cycle) - 1 THEN 0
    ELSE LET k == FirstIndex({j \in 1..Len(es) :
                      es[j][1] = cycle[i] /\ es[j][2] = cycle[i + 1]})
         IN  (IF k = 0 THEN 0 ELSE es[k][3]) + CycleCost(es, cycle, i + 1)

\* BellmanFordAlgorithm._detect_negative_cycle: <<found, cycle, cycle_cost>>
detect_negative_cycle(a, dist) ==
    LET es == edges(a)
        k == FirstIndex({i \in 1..Len(es) : Relaxable(dist, es[i])})
    IN  IF k = 0 THEN <<FALSE, <<>>, 0>>
        ELSE LET cycle == WalkBack(es, dist, Len(a), <<es[k][2]>>, es[k][1])
             IN  <<TRUE, Reverse(cycle), CycleCost(es, cycle, 1)>>

\* BellmanFordAlgorithm.compute
BellmanFordCompute(a, start, goal) ==
    IF ~validate_nodes_exist(a, {start, goal}) THEN Raised("node_not_found")
    ELSE LET st == RelaxRounds(edges(a), Len(a) - 1,
                       [dist |-> [n \in KeySet(a) |-> IF n = start THEN 0 ELSE Inf],
                        prev |-> [n \in KeySet(a) |-> None],
                        updated |-> FALSE])
             cycle_info == detect_negative_cycle(a, st.dist)
         IN  IF cycle_info[1] THEN RaisedCycle(cycle_info[2], cycle_info[3])
             ELSE IF st.dist[goal] = Inf THEN Raised("no_path")
             ELSE Returned(reconstruct_path(st.prev, goal), st.dist[goal], {})

(***************************************************************************)
(* Optional values (Optional[...] fields of the responses): None is the    *)
(* empty tuple and a present value v is <<v>>.                             *)
(***************************************************************************)
Nothing == <<>>

Some(v) == <<v>>

\* list.remove(x): drops the first occurrence
ListRemove(s, x) ==
    IF \E i \in 1..Len(s) : s[i] = x
    THEN LET k == CHOOSE i \in 1..Len(s) : s[i] = x /\ \A j \in 1..(i - 1) : s[j] # x
         IN  SubSeq(s, 1, k - 1) \o SubSeq(s, k + 1, Len(s))
    ELSE s

\* del d[k]
Del(d, k) == SelectSeq(d, LAMBDA p : p[1] # k)

Min(x, y) == IF x <= y THEN x ELSE y

(***************************************************************************)
(* greenfield_v2 resilience/cache.py                                       *)
(***************************************************************************)
\* IdempotencyCache(maxsize=1000, default_ttl=300.0) of the RoutingEngine
maxsize == 1000
default_ttl == 300

\* IdempotencyCache.__init__: _cache is entries
IdempotencyCache(maxsize_, default_ttl_) ==
    [maxsize |-> maxsize_, default_ttl |-> default_ttl_,
     entries |-> <<>>, access_order |-> <<>>]

\* the cache of a RoutingEngine
NewCache == IdempotencyCache(maxsize, default_ttl)

\* IdempotencyCache._make_key: request_id, then the keyword arguments sorted
\* by name; the SHA-256 digest of the joined text is taken as injective
make_key(request_id, graph_id, start_node, goal_node) ==
    <<request_id, goal_node, graph_id, start_node>>

\* (defect: an entry whose age equals its TTL counts as expired)
is_expired_at_ttl(entry, t) == t - entry.timestamp >= entry.ttl

\* CacheEntry.is_expired at time t
is_expired(entry, t) == t - entry.timestamp > entry.ttl

\* (defect: a hit does not move the key to the end of _access_order)
cache_get_no_touch(c, cache_key, t) ==
    IF HasKey(c.entries, cache_key)
    THEN LET entry == c.entries[IndexOf(c.entries, cache_key)][2]
         IN  IF is_expired(entry, t)
             THEN [cache |-> [c EXCEPT !.entries = Del(@, cache_key),
                                       !.access_order = ListRemove(@, cache_key)],
                   result |-> Nothing]
             ELSE [cache |-> c, result |-> Some(entry.result)]
    ELSE [cache |-> c, result |-> Nothing]

\* (defect: an expired entry is reported absent but left in the cache)
cache_get_keeps_expired(c, cache_key, t) ==
    IF HasKey(c.entries, cache_key)
    THEN LET entry == c.entries[IndexOf(c.entries, cache_key)][2]
         IN  IF is_expired(entry, t)
             THEN [cache |-> c, result |-> Nothing]
             ELSE [cache |-> [c EXCEPT !.access_order =
                                  Append(ListRemove(@, cache_key), cache_key)],
                   result |-> Some(entry.result)]
    ELSE [cache |-> c, result |-> Nothing]

\* IdempotencyCache.get: the cache afterwards and the Optional result
cache_get(c, cache_key, t) ==
    IF HasKey(c.entries, cache_key)
    THEN LET entry == c.entries[IndexOf(c.entries, cache_key)][2]
         IN  IF is_expired(entry, t)
             THEN [cache |-> [c EXCEPT !.entries = Del(@, cache_key),
                                       !.access_order = ListRemove(@, cache_key)],
                   result |-> Nothing]
             ELSE [cache |-> [c EXCEPT !.access_order =
                                  Append(ListRemove(@, cache_key), cache_key)],
                   result |-> Some(entry.result)]
    ELSE [cache |-> c, result |-> Nothing]

\* IdempotencyCache._evict_lru
evict_lru(c) ==
    IF c.access_order = <<>> THEN c
    ELSE [c EXCEPT !.entries = Del(@, Head(c.access_order)),
                   !.access_order = Tail(@)]

\* (defect: the key is appended to _access_order without removing its
\* earlier occurrence)
put_appends_always(c, cache_key, request_id, result, ttl, t) ==
    LET c1 == IF Len(c.entries) >= c.maxsize /\ ~HasKey(c.entries, cache_key)
              THEN evict_lru(c) ELSE c
        entry == [request_id |-> request_id, result |-> result,
                  timestamp |-> t,
                  ttl |-> IF ttl = Nothing \/ ttl = Some(0) THEN c.default_ttl
                          ELSE ttl[1]]
    IN  [c1 EXCEPT !.entries = Put(@, cache_key, entry),
                   !.access_order = Append(@, cache_key)]

\* IdempotencyCache.clear
clear(c) == [c EXCEPT !.entries = <<>>, !.access_order = <<>>]

\* IdempotencyCache.put; ttl is Nothing (None) or Some(seconds), and
\* "ttl or self.default_ttl" takes the default for None and for 0
put(c, cache_key, request_id, result, ttl, t) ==
    LET c1 == IF Len(c.entries) >= c.maxsize /\ ~HasKey(c.entries, cache_key)
              THEN evict_lru(c) ELSE c
        entry == [request_id |-> request_id, result |-> result,
                  timestamp |-> t,
                  ttl |-> IF ttl = Nothing \/ ttl = Some(0) THEN c.default_ttl
                          ELSE ttl[1]]
    IN  [c1 EXCEPT !.entries = Put(@, cache_key, entry),
                   !.access_order = Append(ListRemove(@, cache_key), cache_key)]

\* IdempotencyCache.put with ttl=None, as compute_route calls it
cache_put(c, cache_key, request_id, result, t) ==
    put(c, cache_key, request_id, result, Nothing, t)

(***************************************************************************)
(* greenfield_v2 resilience/circuit_breaker.py                             *)
(***************************************************************************)
\* CircuitBreaker(failure_threshold=5, timeout_duration=60.0,
\*                expected_exceptions=(GraphValidationError, IOError))
failure_threshold == 5
timeout_duration == 60
expected_exceptions == {"GraphValidationError", "IOError"}

\* last_failure_time = None
NoTime == -1

\* CircuitBreaker.__init__
NewBreaker == [state |-> "CLOSED", failure_count |-> 0, last_failure_time |-> NoTime]

\* CircuitBreaker._should_attempt_reset
should_attempt_reset(cb, t) ==
    cb.last_failure_time # NoTime /\ t - cb.last_failure_time >= timeout_duration

\* (defect: closing after a trial keeps the failure count)
on_success_keeps_count(cb) ==
    IF cb.state = "HALF_OPEN" THEN [cb EXCEPT !.state = "CLOSED"] ELSE cb

\* CircuitBreaker._on_success
on_success(cb) ==
    IF cb.state = "HALF_OPEN"
    THEN [cb EXCEPT !.state = "CLOSED", !.failure_count = 0]
    ELSE cb

\* (defect: the circuit opens one failure late)
on_failure_above_threshold(cb, t) ==
    LET counted == [cb EXCEPT !.failure_count = @ + 1, !.last_failure_time = t]
    IN  IF counted.state = "HALF_OPEN" THEN [counted EXCEPT !.state = "OPEN"]
        ELSE IF counted.failure_count > failure_threshold
        THEN [counted EXCEPT !.state = "OPEN"]
        ELSE counted

\* CircuitBreaker._on_failure
on_failure(cb, t) ==
    LET counted == [cb EXCEPT !.failure_count = @ + 1, !.last_failure_time = t]
    IN  IF counted.state = "HALF_OPEN" THEN [counted EXCEPT !.state = "OPEN"]
        ELSE IF counted.failure_count >= failure_threshold
        THEN [counted EXCEPT !.state = "OPEN"]
        ELSE counted

\* CircuitBreaker.call(func): outcome is what func does when it is invoked,
\* "ok" or the name of the exception it raises
breaker_call(cb, outcome, t) ==
    IF cb.state = "OPEN" /\ ~should_attempt_reset(cb, t)
    THEN [breaker |-> cb, outcome |-> "CircuitBreakerOpenError", invoked |-> FALSE]
    ELSE LET entered == IF cb.state = "OPEN" THEN [cb EXCEPT !.state = "HALF_OPEN"]
                        ELSE cb
         IN  IF outcome = "ok"
             THEN [breaker |-> on_success(entered), outcome |-> outcome, invoked |-> TRUE]
             ELSE IF outcome \in expected_exceptions
             THEN [breaker |-> on_failure(entered, t), outcome |-> outcome,
                   invoked |-> TRUE]
             ELSE [breaker |-> entered, outcome |-> outcome, invoked |-> TRUE]

(***************************************************************************)
(* greenfield_v2 resilience/retry.py as applied to _load_graph_resilient   *)
(***************************************************************************)
\* @retry(max_attempts=3, initial_wait=1.0, backoff_multiplier=2.0,
\*        max_wait=10.0, exceptions=(IOError, TransientError))
max_attempts == 3
initial_wait == 1
backoff_multiplier == 2
max_wait == 10
retry_exceptions == {"IOError", "TransientError"}

\* one call of the wrapped function, as the wrapper sees it
Attempt(cb, r, t) ==
    [time |-> t, before |-> cb, outcome |-> r.outcome, invoked |-> r.invoked,
     after |-> r.breaker]

\* (defect: every exception is retried)
RECURSIVE retry_wrapper_retries_all(_, _, _, _, _, _)
retry_wrapper_retries_all(cb, script, attempt, wait_time, t, loader_calls) ==
    LET r == breaker_call(cb, script[attempt], t)
        n == loader_calls + (IF r.invoked THEN 1 ELSE 0)
    IN  IF r.outcome = "ok" \/ attempt = max_attempts
        THEN [breaker |-> r.breaker, outcome |-> r.outcome, now |-> t,
              loader_calls |-> n, attempts |-> <<Attempt(cb, r, t)>>]
        ELSE LET rest == retry_wrapper_retries_all(r.breaker, script, attempt + 1,
                             Min(wait_time * backoff_multiplier, max_wait),
                             t + wait_time, n)
             IN  [rest EXCEPT !.attempts = <<Attempt(cb, r, t)>> \o @]

\* the "for attempt in range(1, max_attempts + 1)" loop around
\* circuit_breaker.call(loader); script[attempt] is what the loader does at
\* that attempt, time.sleep moves the clock; attempts lists the calls made
RECURSIVE retry_wrapper(_, _, _, _, _, _)
retry_wrapper(cb, script, attempt, wait_time, t, loader_calls) ==
    LET r == breaker_call(cb, script[attempt], t)
        n == loader_calls + (IF r.invoked THEN 1 ELSE 0)
    IN  IF r.outcome = "ok" \/ r.outcome \notin retry_exceptions
           \/ attempt = max_attempts
        THEN [breaker |-> r.breaker, outcome |-> r.outcome, now |-> t,
              loader_calls |-> n, attempts |-> <<Attempt(cb, r, t)>>]
        ELSE LET rest == retry_wrapper(r.breaker, script, attempt + 1,
                             Min(wait_time * backoff_multiplier, max_wait),
                             t + wait_time, n)
             IN  [rest EXCEPT !.attempts = <<Attempt(cb, r, t)>> \o @]

\* RoutingEngine._load_graph_resilient
load_graph_resilient(cb, script, t) ==
    retry_wrapper(cb, script, 1, initial_wait, t, 0)

(***************************************************************************)
(* greenfield_v2 core/algorithms/selector.py and core/validator.py         *)
(***************************************************************************)
\* AlgorithmSelector.select: the name() of the selected algorithm, or the
\* ValueError raised for an unknown hint
select(a, algorithm_hint) ==
    IF algorithm_hint = "dijkstra" THEN "dijkstra"
    ELSE IF algorithm_hint = "bellman_ford" THEN "bellman_ford"
    ELSE IF algorithm_hint = "auto"
    THEN (IF has_negative_weights(a) THEN "bellman_ford" ELSE "dijkstra")
    ELSE "ValueError"

\* actual_cost accumulated over the edges of the path
RECURSIVE actual_cost(_, _, _)
actual_cost(a, path, i) ==
    IF i >= Len(path) THEN 0
    ELSE Get(neighbors(a, path[i]), path[i + 1], 0) + actual_cost(a, path, i + 1)

\* ResultValidator.validate_path: TRUE when no ValidationError is raised
validate_path(a, path, expected_cost) ==
    /\ Len(path) >= 2
    /\ \A i \in 1..(Len(path) - 1) : HasKey(neighbors(a, path[i]), path[i + 1])
    /\ actual_cost(a, path, 1) = expected_cost

(***************************************************************************)
(* greenfield_v2 routing.py                                                *)
(***************************************************************************)
\* Graph.from_edge_list
RECURSIVE from_edge_list_from(_, _, _)
from_edge_list_from(es, i, a) ==
    IF i > Len(es) THEN a
    ELSE from_edge_list_from(es, i + 1, add_edge(a, es[i][1], es[i][2], es[i][3]))

from_edge_list(es) == from_edge_list_from(es, 1, <<>>)

\* The graphs the loader serves, by graph_id; nodes A, B, C are 1, 2, 3.
\*   1: A->B:1, B->C:1, C->A:-1   (the cycle A-B-C-A weighs +1)
\*   2: A->B:1, B->C:1, C->A:-3   (the cycle weighs -1)
\*   3: A->B:5, A->C:2, C->B:1    (no negative weight)
GraphData ==
    << << <<1, 2, 1>>, <<2, 3, 1>>, <<3, 1, -1>> >>,
       << <<1, 2, 1>>, <<2, 3, 1>>, <<3, 1, -3>> >>,
       << <<1, 2, 5>>, <<1, 3, 2>>, <<3, 2, 1>> >> >>

\* the graph_loader_func of the engine when it succeeds
graph_loader(graph_id) == from_edge_list(GraphData[graph_id])

\* RouteResponse of a successful computation
SuccessResponse(request, path, cost, algorithm_name, a) ==
    [request_id |-> request.request_id, status |-> "success",
     path |-> Some(path), cost |-> Some(cost),
     metadata |-> Some([algorithm_used |-> algorithm_name,
                        graph_nodes |-> Len(nodes(a)),
                        graph_edges |-> NumEdges(a),
                        cache_hit |-> FALSE]),
     error |-> Nothing]

\* RoutingEngine._error_response
error_response(request, status, error_code) ==
    [request_id |-> request.request_id, status |-> status,
     path |-> Nothing, cost |-> Nothing, metadata |-> Nothing,
     error |-> Some([code |-> error_code])]

\* (defect: NegativeCycleError, a ValueError, is caught by the ValueError clause)
exception_response_value_error_first(request, exception) ==
    CASE exception \in {"NegativeCycleError", "ValueError"} ->
             error_response(request, "error", "INVALID_INPUT")
      [] exception = "TimeoutError" ->
             error_response(request, "timeout", "COMPUTATION_TIMEOUT")
      [] exception = "CircuitBreakerOpenError" ->
             error_response(request, "error", "CIRCUIT_BREAKER_OPEN")
      [] exception = "GraphValidationError" ->
             error_response(request, "error", "INVALID_GRAPH")
      [] exception = "ValidationError" ->
             error_response(request, "error", "INVALID_RESULT")
      [] OTHER -> error_response(request, "error", "INTERNAL_ERROR")

\* the except clauses of compute_route, in their order
exception_response(request, exception) ==
    CASE exception = "NegativeCycleError" ->
             error_response(request, "error", "NEGATIVE_CYCLE_DETECTED")
      [] exception = "TimeoutError" ->
             error_response(request, "timeout", "COMPUTATION_TIMEOUT")
      [] exception = "CircuitBreakerOpenError" ->
             error_response(request, "error", "CIRCUIT_BREAKER_OPEN")
      [] exception = "GraphValidationError" ->
             error_response(request, "error", "INVALID_GRAPH")
      [] exception = "ValidationError" ->
             error_response(request, "error", "INVALID_RESULT")
      [] exception = "ValueError" ->
             error_response(request, "error", "INVALID_INPUT")
      [] OTHER -> error_response(request, "error", "INTERNAL_ERROR")

\* the exception class behind a status of PathAlgorithm.compute
exception_of(status) ==
    CASE status = "negative_cycle" -> "NegativeCycleError"
      [] status = "node_not_found" -> "GraphValidationError"
      [] OTHER -> "ValueError"

\* RoutingEngine.compute_route at time t.  objs is the store of RouteResponse
\* objects: the cache and the callers hold references (indices) into it, so
\* that the assignment to metadata["cache_hit"] on a hit changes the one
\* object they share.  Yields the engine's state afterwards, the reference
\* returned, and how often the loader and an algorithm were invoked.
\* script is what the loader does at each attempt; timed_out tells whether
\* the timeout(request.timeout_ms) context interrupts the computation.
compute_route(c, cb, objs, t, request, script, timed_out) ==
    LET cache_key == make_key(request.request_id, request.graph_id,
                              request.start_node, request.goal_node)
        got == cache_get(c, cache_key, t)
    IN  IF got.result # Nothing
        THEN LET ref == got.result[1]
             IN  [cache |-> got.cache, breaker |-> cb,
                  objs |-> [objs EXCEPT ![ref].metadata =
                               Some([@[1] EXCEPT !.cache_hit = TRUE])],
                  now |-> t, response |-> ref, load_outcome |-> "none",
                  loader_calls |-> 0, algorithm_calls |-> 0]
        ELSE
        LET ld == load_graph_resilient(cb, script, t)
            Fail(exception, algorithm_calls) ==
                [cache |-> got.cache, breaker |-> ld.breaker,
                 objs |-> Append(objs, exception_response(request, exception)),
                 now |-> ld.now, response |-> Len(objs) + 1,
                 load_outcome |-> ld.outcome,
                 loader_calls |-> ld.loader_calls,
                 algorithm_calls |-> algorithm_calls]
        IN  IF ld.outcome # "ok" THEN Fail(ld.outcome, 0)
            ELSE
            LET a == graph_loader(request.graph_id)
                algorithm_name == select(a, request.algorithm_hint)
                computed == IF algorithm_name = "dijkstra"
                            THEN DijkstraCompute(a, request.start_node, request.goal_node)
                            ELSE BellmanFordCompute(a, request.start_node,
                                                    request.goal_node)
            IN  IF ~validate_nodes_exist(a, {request.start_node, request.goal_node})
                THEN Fail("GraphValidationError", 0)
                ELSE IF algorithm_name = "ValueError" THEN Fail("ValueError", 0)
                ELSE IF timed_out THEN Fail("TimeoutError", 1)
                ELSE IF computed.status # "ok"
                THEN Fail(exception_of(computed.status), 1)
                ELSE IF request.validate_result
                        /\ ~validate_path(a, computed.path, computed.cost)
                THEN Fail("ValidationError", 1)
                ELSE [cache |-> cache_put(got.cache, cache_key, request.request_id,
                                          Len(objs) + 1, ld.now),
                      breaker |-> ld.breaker,
                      objs |-> Append(objs, SuccessResponse(request, computed.path,
                                          computed.cost, algorithm_name, a)),
                      now |-> ld.now, response |-> Len(objs) + 1,
                      load_outcome |-> ld.outcome,
                      loader_calls |-> ld.loader_calls,
                      algorithm_calls |-> 1]

(***************************************************************************)
(* routing_v2.py (Claude-haiku-4.5): Graph and the two algorithms.  A      *)
(* Graph is given by its edges list, a sequence of <<source, target,       *)
(* weight>>; nodes A..F are 1..6.                                          *)
(***************************************************************************)
\* one iteration of the loop of Graph.__post_init__ ("if src and dst")
post_init_edge(a, e) ==
    IF e[1] # None /\ e[2] # None
    THEN LET a1 == IF HasKey(a, e[1]) THEN a ELSE Append(a, <<e[1], <<>> >>)
             a2 == Put(a1, e[1], Put(Get(a1, e[1], <<>>), e[2], e[3]))
         IN  IF HasKey(a2, e[2]) THEN a2 ELSE Append(a2, <<e[2], <<>> >>)
    ELSE a

RECURSIVE post_init_from(_, _, _)
post_init_from(es, i, a) ==
    IF i > Len(es) THEN a ELSE post_init_from(es, i + 1, post_init_edge(a, es[i]))

\* Graph.__post_init__: the adjacency dict _adj built from the edges list
post_init(es) == post_init_from(es, 1, <<>>)

\* Graph.neighbors
v2_neighbors(a, node) == Get(a, node, <<>>)

\* Graph.nodes
v2_nodes(a) == Keys(a)

\* outcome of an algorithm: a returned (path, cost) or the exception raised
V2Returned(path, cost) == [status |-> "ok", path |-> path, cost |-> cost]

V2Raised(exception) == [status |-> exception, path |-> <<>>, cost |-> 0]

\* _reconstruct_path
v2_reconstruct_path(prev, goal) ==
    Reverse(WalkPrev(prev, goal, Cardinality(DOMAIN prev) + 1))

\* dijkstra_shortest_path: "for neighbor, weight in graph.neighbors(node).items()"
RECURSIVE v2_dijkstra_relax(_, _, _, _, _)
v2_dijkstra_relax(st, cost, node, nbrs, j) ==
    IF j > Len(nbrs) THEN st
    ELSE LET neighbor == nbrs[j][1]
             new_cost == cost + nbrs[j][2]
         IN  IF neighbor \notin st.visited /\ new_cost < st.dist[neighbor]
             THEN v2_dijkstra_relax(
                      [st EXCEPT !.dist[neighbor] = new_cost,
                                 !.prev[neighbor] = node,
                                 !.heap = @ \cup {<<new_cost, neighbor>>}],
                      cost, node, nbrs, j + 1)
             ELSE v2_dijkstra_relax(st, cost, node, nbrs, j + 1)

\* dijkstra_shortest_path: the "while heap" loop
RECURSIVE v2_dijkstra_loop(_, _, _)
v2_dijkstra_loop(a, goal, st) ==
    IF st.heap = {} THEN V2Raised("ValueError")
    ELSE LET top == HeapMin(st.heap)
             cost == top[1]
             node == top[2]
             popped == [st EXCEPT !.heap = @ \ {top}]
         IN  IF node \in st.visited THEN v2_dijkstra_loop(a, goal, popped)
             ELSE LET fin == [popped EXCEPT !.visited = @ \cup {node}]
                  IN  IF node = goal
                      THEN V2Returned(v2_reconstruct_path(fin.prev, goal), cost)
                      ELSE v2_dijkstra_loop(a, goal,
                               v2_dijkstra_relax(fin, cost, node, v2_neighbors(a, node), 1))

\* dijkstra_shortest_path; slow tells whether the elapsed-time test of the
\* loop finds the computation over timeout_ms.  Weights are not examined.
dijkstra_shortest_path(a, start, goal, slow) ==
    IF start \notin KeySet(a) \/ goal \notin KeySet(a) THEN V2Raised("ValueError")
    ELSE IF slow THEN V2Raised("TimeoutError")
    ELSE v2_dijkstra_loop(a, goal,
             [dist |-> [n \in KeySet(a) |-> IF n = start THEN 0 ELSE Inf],
              prev |-> [n \in KeySet(a) |-> None],
              heap |-> {<<0, start>>},
              visited |-> {}])

\* "for u in nodes: ... for v, weight in graph.neighbors(u).items()": one pass
\* over the edges in dict order, skipping sources at infinite distance
RECURSIVE v2_relax_pass(_, _, _)
v2_relax_pass(es, i, st) ==
    IF i > Len(es) THEN st
    ELSE LET u == es[i][1]
             v == es[i][2]
         IN  IF st.dist[u] # Inf /\ st.dist[u] + es[i][3] < st.dist[v]
             THEN v2_relax_pass(es, i + 1,
                      [dist |-> [st.dist EXCEPT ![v] = st.dist[u] + es[i][3]],
                       prev |-> [st.prev EXCEPT ![v] = u],
                       updated |-> TRUE])
             ELSE v2_relax_pass(es, i + 1, st)

\* "for iteration in range(len(nodes) - 1)"; early_exit is the
\* "if not updated: break" of bellman_ford_shortest_path
RECURSIVE v2_relax_rounds(_, _, _, _)
v2_relax_rounds(es, rounds, st, early_exit) ==
    IF rounds <= 0 THEN st
    ELSE LET after == v2_relax_pass(es, 1, [st EXCEPT !.updated = FALSE])
         IN  IF early_exit /\ ~after.updated THEN after
             ELSE v2_relax_rounds(es, rounds - 1, after, early_exit)

\* some edge from a node at finite distance can still be relaxed
v2_relaxable(es, dist) ==
    \E i \in 1..Len(es) :
        dist[es[i][1]] # Inf /\ dist[es[i][1]] + es[i][3] < dist[es[i][2]]

\* bellman_ford_shortest_path
bellman_ford_shortest_path(a, start, goal, slow) ==
    IF start \notin KeySet(a) \/ goal \notin KeySet(a) THEN V2Raised("ValueError")
    ELSE IF slow THEN V2Raised("TimeoutError")
    ELSE LET es == EdgesFrom(a, 1)
             st == v2_relax_rounds(es, Len(a) - 1,
                       [dist |-> [n \in KeySet(a) |-> IF n = start THEN 0 ELSE Inf],
                        prev |-> [n \in KeySet(a) |-> None],
                        updated |-> FALSE], TRUE)
         IN  IF v2_relaxable(es, st.dist) THEN V2Raised("ValueError")
             ELSE IF st.dist[goal] = Inf THEN V2Raised("ValueError")
             ELSE V2Returned(v2_reconstruct_path(st.prev, goal), st.dist[goal])

(***************************************************************************)
(* routing_v2.py: validation and analysis                                  *)
(***************************************************************************)
\* _has_negative_weights: over the edges list
v2_has_negative_weights(es) == \E i \in 1..Len(es) : es[i][3] < 0

\* _has_negative_cycle: Bellman-Ford from nodes[0]
has_negative_cycle(a) ==
    IF Len(a) = 0 THEN FALSE
    ELSE LET es == EdgesFrom(a, 1)
             st == v2_relax_rounds(es, Len(a) - 1,
                       [dist |-> [n \in KeySet(a) |-> IF n = a[1][1] THEN 0 ELSE Inf],
                        prev |-> [n \in KeySet(a) |-> None],
                        updated |-> FALSE], FALSE)
         IN  v2_relaxable(es, st.dist)

\* the nodes the breadth-first search of _is_reachable visits
RECURSIVE bfs_visited(_, _, _)
bfs_visited(a, frontier, visited) ==
    IF frontier = {} THEN visited
    ELSE LET seen == visited \cup frontier
         IN  bfs_visited(a, UNION {KeySet(v2_neighbors(a, n)) : n \in frontier} \ seen,
                         seen)

\* _is_reachable
is_reachable(a, start, goal) ==
    start = goal \/ goal \in bfs_visited(a, {start}, {})

\* _validate_graph: the list of error codes, empty for a valid graph
validate_graph(es, start, goal) ==
    LET a == post_init(es)
        missing == (IF start \notin KeySet(a) THEN <<"NODE_NOT_FOUND">> ELSE <<>>)
                   \o (IF goal \notin KeySet(a) THEN <<"NODE_NOT_FOUND">> ELSE <<>>)
    IN  IF Len(a) = 0 THEN <<"EMPTY_GRAPH">>
        ELSE IF missing # <<>> THEN missing
        ELSE (IF v2_has_negative_weights(es) /\ has_negative_cycle(a)
              THEN <<"NEG_CYCLE">> ELSE <<>>)
             \o (IF ~is_reachable(a, start, goal) THEN <<"NO_PATH_FOUND">> ELSE <<>>)

(***************************************************************************)
(* routing_v2.py: RoutingService                                           *)
(***************************************************************************)
\* RetryPolicy.max_retries and RoutingConfig.cache_ttl_sec
max_retries == 3
cache_ttl_sec == 300

\* (defect: "auto" picks Dijkstra whatever the weights)
select_algorithm_auto_dijkstra(has_neg_weights, algorithm_hint) ==
    IF algorithm_hint \in {"dijkstra", "bellman_ford"} THEN algorithm_hint
    ELSE "dijkstra"

\* RoutingService._select_algorithm
select_algorithm(has_neg_weights, algorithm_hint) ==
    IF algorithm_hint \in {"dijkstra", "bellman_ford"} THEN algorithm_hint
    ELSE IF has_neg_weights THEN "bellman_ford" ELSE "dijkstra"

\* RoutingService._compute_with_retry: "for attempt in range(max_retries)";
\* slow[attempt + 1] tells whether that attempt runs over timeout_ms.  Both
\* TimeoutError and ValueError lead to the next attempt, after a sleep unless
\* the attempt was the last; the last error is raised when all have failed.
RECURSIVE compute_with_retry(_, _, _, _, _, _, _)
compute_with_retry(a, start, goal, algorithm, slow, attempt, sleeps) ==
    LET r == IF algorithm = "dijkstra"
             THEN dijkstra_shortest_path(a, start, goal, slow[attempt + 1])
             ELSE bellman_ford_shortest_path(a, start, goal, slow[attempt + 1])
    IN  IF r.status = "ok" \/ attempt = max_retries - 1
        THEN [status |-> r.status, path |-> r.path, cost |-> r.cost,
              algorithm |-> algorithm, algorithm_calls |-> attempt + 1,
              sleeps |-> sleeps]
        ELSE compute_with_retry(a, start, goal, algorithm, slow, attempt + 1, sleeps + 1)

\* RoutingService._get_cache_key: the digests are taken as injective
get_cache_key(es, start, goal) == <<es, start, goal>>

\* RoutingService._get_cached_result at time t
get_cached_result(cache, access_times, key, t) ==
    IF HasKey(cache, key)
    THEN IF t - Get(access_times, key, 0) < cache_ttl_sec
         THEN [cache |-> cache, access_times |-> Put(access_times, key, t),
               cached |-> Some(Get(cache, key, Nothing))]
         ELSE [cache |-> Del(cache, key), access_times |-> access_times,
               cached |-> Nothing]
    ELSE [cache |-> cache, access_times |-> access_times, cached |-> Nothing]

\* RoutingResult of a request that failed
ErrorResult(request_id, error_code) ==
    [path |-> Nothing, cost |-> Nothing, algorithm |-> Nothing,
     request_id |-> request_id, status |-> "error",
     error_code |-> Some(error_code), cache_hit |-> FALSE, retry_count |-> 0]

\* RoutingResult of a computed path
SuccessResult(request_id, path, cost, algorithm) ==
    [path |-> Some(path), cost |-> Some(cost), algorithm |-> Some(algorithm),
     request_id |-> request_id, status |-> "success",
     error_code |-> Nothing, cache_hit |-> FALSE, retry_count |-> 0]

\* RoutingService.compute_shortest_path at time t with config.algorithm_hint
\* = hint and cache_enabled.  A cached RoutingResult is one object
\* shared with the cache, so cache_hit = True is written into the stored
\* result.  selected is what _select_algorithm returned, if it was called.
compute_shortest_path(cache, access_times, t, es, start, goal, request_id, hint, slow) ==
    LET key == get_cache_key(es, start, goal)
        got == get_cached_result(cache, access_times, key, t)
    IN  IF got.cached # Nothing
        THEN LET cached == [got.cached[1] EXCEPT !.cache_hit = TRUE]
             IN  [cache |-> Put(got.cache, key, cached),
                  access_times |-> got.access_times,
                  result |-> cached, selected |-> Nothing,
                  algorithm_calls |-> 0, sleeps |-> 0]
        ELSE
        LET errors == validate_graph(es, start, goal)
            a == post_init(es)
            algorithm == select_algorithm(v2_has_negative_weights(es), hint)
            r == compute_with_retry(a, start, goal, algorithm, slow, 0, 0)
            Stored(result, selected, algorithm_calls, sleeps) ==
                [cache |-> Put(got.cache, key, result),
                 access_times |-> Put(got.access_times, key, t),
                 result |-> result, selected |-> selected,
                 algorithm_calls |-> algorithm_calls, sleeps |-> sleeps]
        IN  IF errors # <<>>
            THEN Stored(ErrorResult(request_id, errors[1]), Nothing, 0, 0)
            ELSE IF r.status = "ok"
            THEN Stored(SuccessResult(request_id, r.path, r.cost, r.algorithm),
                        Some(algorithm), r.algorithm_calls, r.sleeps)
            ELSE [cache |-> got.cache, access_times |-> got.access_times,
                  result |-> ErrorResult(request_id, "INTERNAL_ERROR"),
                  selected |-> Some(algorithm),
                  algorithm_calls |-> r.algorithm_calls, sleeps |-> r.sleeps]

\* the loop "for k in expired_keys: del self.cache[k]; del
\* self.cache_access_times[k]"; del of a key the cache lacks raises KeyError
RECURSIVE cleanup_delete(_, _, _, _)
cleanup_delete(cache, access_times, expired_keys, i) ==
    IF i > Len(expired_keys)
    THEN [cache |-> cache, access_times |-> access_times, raised |-> "none",
          removed |-> Len(expired_keys)]
    ELSE IF ~HasKey(cache, expired_keys[i])
    THEN [cache |-> cache, access_times |-> access_times, raised |-> "KeyError",
          removed |-> 0]
    ELSE cleanup_delete(Del(cache, expired_keys[i]), Del(access_times, expired_keys[i]),
                        expired_keys, i + 1)

\* RoutingService.cleanup_expired_cache at time t
cleanup_expired_cache(cache, access_times, t) ==
    cleanup_delete(cache, access_times,
                   Keys(SelectSeq(access_times, LAMBDA p : t - p[2] > cache_ttl_sec)), 1)

\* The graphs handed to the service.
\* the example: A->B:5, A->C:2, C->D:1, D->F:-3, F->B:1, A->E:1, E->B:6
ExampleGraph ==
    << <<1, 2, 5>>, <<1, 3, 2>>, <<3, 4, 1>>, <<4, 6, -3>>, <<6, 2, 1>>,
       <<1, 5, 1>>, <<5, 2, 6>> >>

\* A->B:-1, B->C:-1, C->A:-1
NegativeCycleGraph == << <<1, 2, -1>>, <<2, 3, -1>>, <<3, 1, -1>> >>

\* A->B:5, A->C:2, C->B:1
PositiveGraph == << <<1, 2, 5>>, <<1, 3, 2>>, <<3, 2, 1>> >>

\* C->C:1, A->B:-1, B->A:-1: the negative cycle is not reachable from nodes[0]
HiddenCycleGraph == << <<3, 3, 1>>, <<1, 2, -1>>, <<2, 1, -1>> >>

(***************************************************************************)
(* raptor-secondary (raptor_secondary): configuration, state machine,      *)
(* circuit breaker, repositories and AppointmentService.  Times of this    *)
(* part are counted in units of 0.05 s, the smallest duration of           *)
(* infra/config.py, so that 1.0 s is 20.                                   *)
(***************************************************************************)
\* RetryConfig
retry_max_attempts == 3
backoff_initial_seconds == 1
backoff_factor == 2
backoff_max_seconds == 20

\* TimeoutConfig
schedule_timeout_seconds == 10
cancel_timeout_seconds == 10

\* CircuitBreakerConfig
breaker_failure_threshold == 2
reset_timeout_seconds == 20

\* domain/models.py AppointmentState
AppointmentState == {"INIT", "IN_PROGRESS", "CONFIRMED", "FAILED", "COMPENSATING", "COMPENSATED"}

\* services/state_machine.py
ALLOWED_TRANSITIONS ==
    [s \in AppointmentState |->
        CASE s = "INIT" -> {"IN_PROGRESS"}
          [] s = "IN_PROGRESS" -> {"CONFIRMED", "FAILED", "COMPENSATING"}
          [] s = "CONFIRMED" -> {"COMPENSATING"}
          [] s = "COMPENSATING" -> {"COMPENSATED", "FAILED"}
          [] s = "FAILED" -> {"IN_PROGRESS"}
          [] s = "COMPENSATED" -> {}]

can_transition(current, target) == target \in ALLOWED_TRANSITIONS[current]

\* transition returns (ok, reason); this is ok
transition(current, target) == can_transition(current, target)

\* infra/circuit_breaker.py CircuitBreakerState(); opened_at None is NoTime
NewProviderBreaker == [failures |-> 0, opened_at |-> NoTime]

\* CircuitBreaker.allow_request at time t
allow_request(b, t) ==
    IF b.opened_at = NoTime THEN TRUE
    ELSE t - b.opened_at >= reset_timeout_seconds

\* CircuitBreaker.on_success
breaker_on_success(b) == [failures |-> 0, opened_at |-> NoTime]

\* CircuitBreaker.on_failure at time t
breaker_on_failure(b, t) ==
    LET failures == b.failures + 1
    IN  [failures |-> failures,
         opened_at |-> IF failures >= breaker_failure_threshold THEN t
                       ELSE b.opened_at]

\* InMemoryAppointmentRepository.save: the Appointment it creates
NewAppointment == [state |-> "INIT", retry_count |-> 0, last_error |-> "None"]

\* InMemoryOutboxRepository.enqueue followed by mark_sent
OutboxEvent(request_id, type) == [request_id |-> request_id, type |-> type, sent |-> TRUE]

\* what provider_client.schedule can do: return a status (CONFIRMED with or
\* without the downstream_fail hint, PENDING, any other status) or raise
ScheduleOutcomes == {"CONFIRMED", "CONFIRMED_downstream_fail", "PENDING", "REJECTED", "ProviderTimeout", "ProviderError"}

\* what provider_client.cancel can do
CancelOutcomes == {"CANCELLED", "REJECTED", "ProviderTimeout", "ProviderError"}

\* "appt.state = ...; self.appointments.update(appt)".  A run r is the
\* appointment being processed with the breaker, the outbox and the clock,
\* and the log of what the call did: changes lists the changes of the stored
\* state, schedule_calls the provider_client.schedule calls with the clock
\* and the breaker as they were at the call
set_state(r, target) ==
    [r EXCEPT !.appt.state = target,
              !.changes = Append(@, <<r.appt.state, target>>)]

\* _compensate with a defect: a cancel that does not answer CANCELLED puts
\* the appointment back to CONFIRMED
compensate_back_to_confirmed(r, cancel_outcome) ==
    IF ~transition(r.appt.state, "COMPENSATING") THEN r
    ELSE LET r1 == [set_state(r, "COMPENSATING") EXCEPT !.cancel_calls = @ + 1]
         IN  IF cancel_outcome = "CANCELLED"
             THEN [set_state(r1, "COMPENSATED") EXCEPT
                      !.appt.last_error = "None",
                      !.outbox = Append(@, OutboxEvent(r.request_id, "AppointmentCompensated"))]
             ELSE [set_state(r1, "CONFIRMED") EXCEPT !.appt.last_error = "compensation_failed"]

\* _compensate with a defect: the cancelled appointment gets no outbox event
compensate_without_event(r, cancel_outcome) ==
    IF ~transition(r.appt.state, "COMPENSATING") THEN r
    ELSE LET r1 == [set_state(r, "COMPENSATING") EXCEPT !.cancel_calls = @ + 1]
         IN  IF cancel_outcome = "CANCELLED"
             THEN [set_state(r1, "COMPENSATED") EXCEPT !.appt.last_error = "None"]
             ELSE [set_state(r1, "FAILED") EXCEPT !.appt.last_error = "compensation_failed"]

\* _compensate with a defect: the AppointmentCompensated event is enqueued
\* before the answer of cancel is looked at
compensate_event_first(r, cancel_outcome) ==
    IF ~transition(r.appt.state, "COMPENSATING") THEN r
    ELSE LET r1 == [set_state(r, "COMPENSATING") EXCEPT
                       !.cancel_calls = @ + 1,
                       !.outbox = Append(@, OutboxEvent(r.request_id, "AppointmentCompensated"))]
         IN  IF cancel_outcome = "CANCELLED"
             THEN [set_state(r1, "COMPENSATED") EXCEPT !.appt.last_error = "None"]
             ELSE [set_state(r1, "FAILED") EXCEPT !.appt.last_error = "compensation_failed"]

\* AppointmentService._compensate, cancel behaving as cancel_outcome
compensate(r, cancel_outcome) ==
    IF ~transition(r.appt.state, "COMPENSATING") THEN r
    ELSE LET r1 == [set_state(r, "COMPENSATING") EXCEPT !.cancel_calls = @ + 1]
         IN  CASE cancel_outcome = "CANCELLED" ->
                    [set_state(r1, "COMPENSATED") EXCEPT
                        !.appt.last_error = "None",
                        !.outbox = Append(@, OutboxEvent(r.request_id, "AppointmentCompensated"))]
               [] cancel_outcome = "ProviderTimeout" ->
                    [set_state(r1, "FAILED") EXCEPT
                        !.appt.last_error = "compensation_timeout",
                        !.now = @ + cancel_timeout_seconds]
               [] cancel_outcome = "ProviderError" ->
                    [set_state(r1, "FAILED") EXCEPT !.appt.last_error = "provider_error"]
               [] OTHER ->
                    [set_state(r1, "FAILED") EXCEPT !.appt.last_error = "compensation_failed"]

\* backoff_factor ** n
RECURSIVE backoff_power(_)
backoff_power(n) == IF n = 0 THEN 1 ELSE backoff_factor * backoff_power(n - 1)

\* "sleep_for = min(...)" of the backoff after the given attempt
sleep_for(attempt) ==
    Min(backoff_initial_seconds * backoff_power(attempt - 1), backoff_max_seconds)

\* the "# backoff" step that ends an iteration of the retry loop
backoff(r, attempt) ==
    IF attempt < retry_max_attempts THEN [r EXCEPT !.now = @ + sleep_for(attempt)]
    ELSE r

\* the retry loop of process ("while attempt < max_attempts") from the
\* iteration that follows `attempt` attempts, schedule behaving as script
RECURSIVE schedule_loop(_, _, _, _)
schedule_loop(r, attempt0, script, cancel_outcome) ==
    IF attempt0 >= retry_max_attempts
    THEN set_state(r, "FAILED")
    ELSE LET attempt == attempt0 + 1
             outcome == script[attempt]
             r1 == [r EXCEPT !.appt.retry_count = attempt - 1,
                             !.schedule_calls = Append(@, [time |-> r.now, breaker |-> r.breaker])]
             confirmed == [set_state(r1, "CONFIRMED") EXCEPT
                              !.breaker = breaker_on_success(@),
                              !.outbox = Append(@, OutboxEvent(r.request_id, "AppointmentConfirmed"))]
         IN  CASE outcome = "CONFIRMED" ->
                    [confirmed EXCEPT !.appt.last_error = "None"]
               [] outcome = "CONFIRMED_downstream_fail" ->
                    compensate([confirmed EXCEPT !.appt.last_error = "None"], cancel_outcome)
               [] outcome = "PENDING" -> confirmed
               [] outcome = "ProviderTimeout" ->
                    LET t == r1.now + schedule_timeout_seconds
                    IN  schedule_loop(
                            backoff([r1 EXCEPT !.now = t,
                                               !.breaker = breaker_on_failure(@, t),
                                               !.appt.last_error = "timeout"], attempt),
                            attempt, script, cancel_outcome)
               [] outcome = "ProviderError" ->
                    schedule_loop(
                        backoff([r1 EXCEPT !.breaker = breaker_on_failure(@, r1.now),
                                           !.appt.last_error = "provider_error"], attempt),
                        attempt, script, cancel_outcome)
               [] OTHER ->
                    \* on_success (line 79), then the ProviderError of line 103
                    schedule_loop(
                        backoff([r1 EXCEPT
                                    !.breaker = breaker_on_failure(breaker_on_success(@), r1.now),
                                    !.appt.last_error = "unexpected status"], attempt),
                        attempt, script, cancel_outcome)

\* process with a defect: no lookup of the stored appointment (lines 39-48)
process_without_lookup(appointments, outbox, breaker, t, request_id, script, cancel_outcome) ==
    LET r0 == [request_id |-> request_id, appt |-> NewAppointment, breaker |-> breaker,
               outbox |-> outbox, now |-> t, changes |-> <<>>, schedule_calls |-> <<>>,
               cancel_calls |-> 0, idempotent_hit |-> FALSE]
        r1 == set_state(r0, "IN_PROGRESS")
    IN  IF ~allow_request(breaker, t)
        THEN [set_state(r1, "FAILED") EXCEPT !.appt.last_error = "circuit_open"]
        ELSE schedule_loop(r1, 0, script, cancel_outcome)

\* AppointmentService.process(req) at time t: appointments maps each
\* request_id to Nothing or Some(appointment)
process(appointments, outbox, breaker, t, request_id, script, cancel_outcome) ==
    LET existing == appointments[request_id]
        r0 == [request_id |-> request_id, appt |-> NewAppointment, breaker |-> breaker,
               outbox |-> outbox, now |-> t, changes |-> <<>>, schedule_calls |-> <<>>,
               cancel_calls |-> 0, idempotent_hit |-> FALSE]
    IN  IF existing # Nothing
        THEN [r0 EXCEPT !.appt = existing[1], !.idempotent_hit = TRUE]
        ELSE IF ~transition(r0.appt.state, "IN_PROGRESS")
        THEN [r0 EXCEPT !.appt.last_error = "invalid_transition"]
        ELSE LET r1 == set_state(r0, "IN_PROGRESS")
             IN  IF ~allow_request(breaker, t)
                 THEN [set_state(r1, "FAILED") EXCEPT !.appt.last_error = "circuit_open"]
                 ELSE schedule_loop(r1, 0, script, cancel_outcome)

(***************************************************************************)
(* oswe-mini-secondary routing_service/core.py: Router.  The stores         *)
(* appointments and outbox are dicts; a uuid is a number above 10 that no  *)
(* caller passes.  The stored result is None, a path/cost/algorithm record  *)
(* or an error record; value stands for the (path, cost) computed.         *)
(***************************************************************************)
RouterState == {"init", "in_progress", "succeeded", "failed"}

\* Router.__init__ on a graph; negative is graph.has_negative_weight()
NewRouter(negative) == [negative |-> negative, appointments |-> <<>>, outbox |-> <<>>, uuids |-> 0]

\* Router.create_request_id: the uuid drawn next
create_request_id(router) == 10 + router.uuids + 1

NoResult == [kind |-> "None", value |-> 0, algorithm |-> "", error |-> ""]

RouteResult(value, algorithm) == [kind |-> "route", value |-> value, algorithm |-> algorithm, error |-> ""]

RouteError(error) == [kind |-> "error", value |-> 0, algorithm |-> "", error |-> error]

\* {"state": ..., "created_at": ..., "result": ...}
RouterItem(state, created_at, result) == [state |-> state, created_at |-> created_at, result |-> result]

\* "# Choose algorithm"
choose_algorithm(algorithm, negative) ==
    IF algorithm = "auto" THEN (IF negative THEN "bellman-ford" ELSE "dijkstra")
    ELSE algorithm

\* what lines 75-80 come to: dijkstra_shortest_path raises ValidationError on
\* a graph with a negative weight, an unknown algorithm raises RoutingError,
\* and otherwise the algorithm returns or raises as comp says
computation(algorithm, negative, comp) ==
    IF algorithm = "dijkstra"
    THEN IF negative THEN [outcome |-> "ValidationError", elapsed |-> 0, value |-> 0] ELSE comp
    ELSE IF algorithm = "bellman-ford" THEN comp
    ELSE [outcome |-> "RoutingError", elapsed |-> 0, value |-> 0]

\* lines 72-110 without the deadline check of lines 82-84
attempt_without_deadline(router, t, request_id, key, algorithm, timeout_seconds, comp) ==
    LET c == computation(algorithm, router.negative, comp)
        done == t + c.elapsed
        item == Get(router.appointments, key, NoResult)
        result == RouteResult(c.value, algorithm)
    IN  IF c.outcome = "ok"
        THEN [router |-> [router EXCEPT
                             !.appointments = Put(@, key, [item EXCEPT !.state = "succeeded", !.result = result]),
                             !.outbox = Append(@, [request_id |-> request_id, event |-> "routing.succeeded", payload |-> result])],
              now |-> done, returned |-> Some(result), raised |-> "none", last |-> "succeeded"]
        ELSE [router |-> [router EXCEPT
                             !.appointments = Put(@, key, [item EXCEPT !.state = "failed", !.result = RouteError(c.outcome)])],
              now |-> done, returned |-> Nothing, raised |-> c.outcome, last |-> "failed"]

\* (defect: the ValidationError handler re-raises without recording the
\* failure, so the record stays IN_PROGRESS)
attempt_validation_unrecorded(router, t, request_id, key, algorithm, timeout_seconds, comp) ==
    LET c == computation(algorithm, router.negative, comp)
        done == t + c.elapsed
        item == Get(router.appointments, key, NoResult)
        raised == IF c.outcome = "ok" THEN "TimeoutError" ELSE c.outcome
        result == RouteResult(c.value, algorithm)
    IN  IF c.outcome = "ok" /\ ~(c.elapsed > timeout_seconds)
        THEN [router |-> [router EXCEPT
                             !.appointments = Put(@, key, [item EXCEPT !.state = "succeeded", !.result = result]),
                             !.outbox = Append(@, [request_id |-> request_id, event |-> "routing.succeeded", payload |-> result])],
              now |-> done, returned |-> Some(result), raised |-> "none", last |-> "succeeded"]
        ELSE IF raised = "ValidationError"
        THEN [router |-> router,
              now |-> done, returned |-> Nothing, raised |-> raised, last |-> "in_progress"]
        ELSE [router |-> [router EXCEPT
                             !.appointments = Put(@, key, [item EXCEPT !.state = "failed", !.result = RouteError(raised)]),
                             !.outbox = Append(@, [request_id |-> request_id, event |-> "routing.failed", payload |-> RouteError(raised)])],
              now |-> done, returned |-> Nothing, raised |-> raised, last |-> "failed"]

\* lines 72-110 of route: the computation, the deadline check and the three
\* ways out, for the key whose record is IN_PROGRESS
attempt(router, t, request_id, key, algorithm, timeout_seconds, comp) ==
    LET c == computation(algorithm, router.negative, comp)
        done == t + c.elapsed
        item == Get(router.appointments, key, NoResult)
        raised == IF c.outcome = "ok" THEN "TimeoutError" ELSE c.outcome
        result == RouteResult(c.value, algorithm)
    IN  IF c.outcome = "ok" /\ ~(c.elapsed > timeout_seconds)
        THEN [router |-> [router EXCEPT
                             !.appointments = Put(@, key, [item EXCEPT !.state = "succeeded", !.result = result]),
                             !.outbox = Append(@, [request_id |-> request_id, event |-> "routing.succeeded", payload |-> result])],
              now |-> done, returned |-> Some(result), raised |-> "none", last |-> "succeeded"]
        ELSE IF raised = "ValidationError"
        THEN [router |-> [router EXCEPT
                             !.appointments = Put(@, key, [item EXCEPT !.state = "failed", !.result = RouteError(raised)])],
              now |-> done, returned |-> Nothing, raised |-> raised, last |-> "failed"]
        ELSE [router |-> [router EXCEPT
                             !.appointments = Put(@, key, [item EXCEPT !.state = "failed", !.result = RouteError(raised)]),
                             !.outbox = Append(@, [request_id |-> request_id, event |-> "routing.failed", payload |-> RouteError(raised)])],
              now |-> done, returned |-> Nothing, raised |-> raised, last |-> "failed"]

\* route with a defect: a stored failure is returned like a stored success
route_returns_stored_failure(router, t, req, comp) ==
    LET request_id == IF req.request_id = Nothing THEN create_request_id(router) ELSE req.request_id[1]
        key == IF req.idempotency_key = Nothing THEN request_id ELSE req.idempotency_key[1]
        router0 == IF req.request_id = Nothing THEN [router EXCEPT !.uuids = @ + 1] ELSE router
        stored == HasKey(router.appointments, key)
        item == Get(router.appointments, key, NoResult)
    IN  IF stored /\ item.state \in {"succeeded", "failed"}
        THEN [router |-> router0, now |-> t, request_id |-> request_id, key |-> key,
              returned |-> Some(item.result), raised |-> "none", computed |-> FALSE,
              states |-> <<>>]
        ELSE LET router1 == [router0 EXCEPT !.appointments = Put(@, key, RouterItem("in_progress", t, NoResult))]
                 a == attempt(router1, t, request_id, key, choose_algorithm(req.algorithm, router.negative), req.timeout_seconds, comp)
             IN  [router |-> a.router, now |-> a.now, request_id |-> request_id, key |-> key,
                  returned |-> a.returned, raised |-> a.raised, computed |-> TRUE,
                  states |-> <<"init", "in_progress", a.last>>]

\* Router.route at time t.  req holds request_id and idempotency_key
\* (Nothing when not passed), algorithm and timeout_seconds
route(router, t, req, comp) ==
    LET request_id == IF req.request_id = Nothing THEN create_request_id(router) ELSE req.request_id[1]
        key == IF req.idempotency_key = Nothing THEN request_id ELSE req.idempotency_key[1]
        router0 == IF req.request_id = Nothing THEN [router EXCEPT !.uuids = @ + 1] ELSE router
        stored == HasKey(router.appointments, key)
        item == Get(router.appointments, key, NoResult)
    IN  IF stored /\ item.state = "succeeded"
        THEN [router |-> router0, now |-> t, request_id |-> request_id, key |-> key,
              returned |-> Some(item.result), raised |-> "none", computed |-> FALSE,
              states |-> <<>>]
        ELSE LET router1 == [router0 EXCEPT !.appointments = Put(@, key, RouterItem("in_progress", t, NoResult))]
                 a == attempt(router1, t, request_id, key, choose_algorithm(req.algorithm, router.negative), req.timeout_seconds, comp)
             IN  [router |-> a.router, now |-> a.now, request_id |-> request_id, key |-> key,
                  returned |-> a.returned, raised |-> a.raised, computed |-> TRUE,
                  states |-> <<"init", "in_progress", a.last>>]

(***************************************************************************)
(* oswe-mini-m22a1s385 scheduling/service.py: InMemoryStore and            *)
(* AppointmentService.  An appointment id (uuid) is a number; the payload  *)
(* of an outbox item is the appointment, named by its id.  A calendar      *)
(* client is Nothing (no client) or Some(script), script[k] telling        *)
(* whether its k-th reserve call returns ("ok") or raises                  *)
(* ExternalCalendarError.                                                  *)
(***************************************************************************)
\* InMemoryStore.__init__
InMemoryStore == [appointments |-> <<>>, idemp_keys |-> <<>>, outbox |-> <<>>, uuids |-> 0]

\* AppointmentService._check_idempotency: Nothing for None
check_idempotency(store, idemp_key) ==
    IF HasKey(store.idemp_keys, idemp_key)
    THEN Get(store.appointments, Get(store.idemp_keys, idemp_key, 0), Nothing)
    ELSE Nothing

\* AppointmentService.create_appointment at time t; slot_valid tells whether
\* start_time < end_time, path_outcome what the shortest-path call does
create_appointment(store, t, idempotency_key, slot_valid, path_outcome) ==
    LET existing == check_idempotency(store, idempotency_key)
        appt_id == store.uuids + 1
        store1 == [store EXCEPT !.uuids = @ + 1]
        appt == [id |-> appt_id, state |-> "SCHEDULED", created_at |-> t]
    IN  IF existing # Nothing THEN [store |-> store, returned |-> existing, raised |-> "none"]
        ELSE IF ~slot_valid THEN [store |-> store1, returned |-> Nothing, raised |-> "ValueError"]
        ELSE IF path_outcome # "ok" THEN [store |-> store1, returned |-> Nothing, raised |-> path_outcome]
        ELSE [store |-> [store1 EXCEPT
                            !.appointments = Put(@, appt_id, Some(appt)),
                            !.idemp_keys = Put(@, idempotency_key, appt_id),
                            !.outbox = Append(@, [topic |-> "appointment_created", payload |-> appt_id, attempts |-> 0, published |-> FALSE])],
              returned |-> Some(appt), raised |-> "none"]

\* calendar_client.reserve, call number k of this process_outbox call
reserve(client, k) == IF client = Nothing THEN "ok" ELSE client[1][k]

\* the "while item['attempts'] < max_attempts" loop of process_outbox for
\* one item, the client having been called k times: the item as it is left,
\* whether the loop ended by break, and the number of reserve calls made
RECURSIVE reserve_loop(_, _, _, _, _)
reserve_loop(item, client, k, max_tries, calls) ==
    IF ~(item.attempts < max_tries)
    THEN [item |-> item, delivered |-> FALSE, calls |-> calls]
    ELSE IF reserve(client, k + 1) = "ok"
    THEN [item |-> [item EXCEPT !.published = TRUE], delivered |-> TRUE,
          calls |-> IF client = Nothing THEN calls ELSE calls + 1]
    ELSE reserve_loop([item EXCEPT !.attempts = @ + 1], client, k + 1, max_tries, calls + 1)

\* the "for item in list(self.store.outbox)" loop with n items of the
\* snapshot still to come.  The items before were all removed, so the item
\* in turn is the first of the outbox; it is updated in place and then
\* removed by value (list.remove).  log tells for each item what was done
RECURSIVE outbox_loop(_, _, _, _, _, _)
outbox_loop(store, client, k, max_tries, n, log) ==
    IF n = 0 THEN [store |-> store, log |-> log]
    ELSE LET r == reserve_loop(store.outbox[1], client, k, max_tries, 0)
             updated == [store.outbox EXCEPT ![1] = r.item]
         IN  outbox_loop([store EXCEPT !.outbox = ListRemove(updated, r.item)],
                         client, k + r.calls, max_tries, n - 1,
                         Append(log, [payload |-> r.item.payload, calls |-> r.calls,
                                      delivered |-> r.delivered, attempts |-> r.item.attempts]))

\* AppointmentService.process_outbox(max_attempts), max_tries being max_attempts
process_outbox(store, client, max_tries) ==
    outbox_loop(store, client, 0, max_tries, Len(store.outbox), <<>>)

(***************************************************************************)
(* Initial state: an empty graph under construction, a fresh RoutingEngine *)
(* and a fresh RoutingService, the clock at 0.                             *)
(***************************************************************************)
\* RoutingEngine.__init__
EngineInit ==
    /\ eng_cache = NewCache
    /\ eng_breaker = NewBreaker
    /\ eng_objs = <<>>
    /\ eng_calls = <<>>

NoServiceCall ==
    [op |-> "none", graph |-> <<>>, start |-> None, goal |-> None,
     request_id |-> None, algorithm_hint |-> "none",
     slow |-> <<FALSE, FALSE, FALSE>>, result |-> Nothing, selected |-> Nothing,
     algorithm_calls |-> 0, sleeps |-> 0, raised |-> "none", removed |-> 0]

\* RoutingService.__init__
ServiceInit ==
    /\ svc_cache = <<>>
    /\ svc_access_times = <<>>
    /\ svc_last = NoServiceCall
    /\ svc_count = 0

(***************************************************************************)
(* Harness for the two algorithms: a graph is built edge by edge           *)
(* (Graph.from_edge_list), then handed read-only to compute calls.  A      *)
(* Bellman-Ford call may follow a Dijkstra call on the same graph.         *)
(***************************************************************************)
AlgInit ==
    /\ adj = <<>>
    /\ call = NoCall

\* IdempotencyCache(maxsize=2) as in tests/unit/test_cache.py, no call yet
CacheMaxsize == 2
CacheRequestIds == 1..3
CacheKeys == {make_key(id, id, 1, 2) : id \in CacheRequestIds}

CacheInit ==
    /\ idc = IdempotencyCache(CacheMaxsize, default_ttl)
    /\ idc_used = [k \in CacheKeys |-> 0]
    /\ idc_steps = 0
    /\ idc_last = [op |-> "none", key |-> <<>>, before |-> idc, used |-> idc_used,
                   time |-> 0, result |-> Nothing]

\* the concurrent callers of circuit_breaker.call
Threads == {1, 2}

\* no call made through the breaker yet.  brk_seen: streak counts the
\* failures (expected exceptions) since the last success; trial_calls the
\* invocations since the breaker last turned HALF_OPEN; trials the times it
\* turned HALF_OPEN; dispatched the invocations of the wrapped function
NothingSeen ==
    [streak |-> 0, trial_calls |-> 0, trials |-> 0, dispatched |-> 0,
     only_failures |-> TRUE]

BreakerInit ==
    /\ brk = NewBreaker
    /\ brk_seen = NothingSeen
    /\ brk_last = [op |-> "none", attempts |-> <<>>, seen |-> <<>>,
                   outcome |-> "none", done |-> 0]
    /\ brk_steps = 0
    /\ thr_pc = [th \in Threads |-> "idle"]

\* the request ids of the appointment requests
AptRequestIds == 1..3

\* a fresh AppointmentService with empty repositories, no call yet
AppointmentInit ==
    /\ apt_store = [id \in AptRequestIds |-> Nothing]
    /\ apt_outbox = <<>>
    /\ apt_breaker = NewProviderBreaker
    /\ apt_last = [request_id |-> 0, before |-> apt_store, time |-> 0,
                   breaker |-> apt_breaker, changes |-> <<>>, schedule_calls |-> <<>>,
                   cancel_calls |-> 0, idempotent_hit |-> FALSE, result |-> NewAppointment,
                   outcomes |-> <<>>, cancel_outcome |-> "none", outbox |-> apt_outbox]
    /\ apt_steps = 0
    /\ apt_pc = [th \in Threads |-> 0]
    /\ apt_seen = [id \in AptRequestIds |-> [created |-> 0, dispatched |-> 0, hits |-> 0]]

\* no Router built yet
RouterInit ==
    /\ rt_router = Nothing
    /\ rt_last = [op |-> "none"]
    /\ rt_steps = 0

\* AppointmentService(store=InMemoryStore(), ...), no call yet
SchedulingInit ==
    /\ sch_store = InMemoryStore
    /\ sch_last = [op |-> "none"]
    /\ sch_steps = 0

UnitInit == CacheInit /\ BreakerInit /\ AppointmentInit /\ RouterInit /\ SchedulingInit

Init == AlgInit /\ EngineInit /\ ServiceInit /\ UnitInit /\ now = 0

\* Graph.add_edge while the graph is under construction
AddEdge(source, target, weight, maxEdges) ==
    /\ call.alg = "none"
    /\ NumEdges(adj) < maxEdges
    /\ adj' = add_edge(adj, source, target, weight)
    /\ UNCHANGED <<call, engVars, svcVars, unitVars, now>>

RunDijkstra(start, goal) ==
    /\ call.alg = "none"
    /\ call' = [alg |-> "dijkstra", start |-> start, goal |-> goal]
                 @@ DijkstraCompute(adj, start, goal)
    /\ UNCHANGED <<adj, engVars, svcVars, unitVars, now>>

RunBellmanFord(start, goal) ==
    /\ \/ call.alg = "none"
       \/ call.alg = "dijkstra" /\ call.start = start /\ call.goal = goal
    /\ call' = [alg |-> "bellman_ford", start |-> start, goal |-> goal]
                 @@ BellmanFordCompute(adj, start, goal)
    /\ UNCHANGED <<adj, engVars, svcVars, unitVars, now>>

AlgNext ==
    \/ \E s \in 1..MaxNode, t \in 1..MaxNode, w \in Weights : AddEdge(s, t, w, MaxEdges)
    \/ \E s \in 1..MaxNode, t \in 1..MaxNode : RunDijkstra(s, t)
    \/ \E s \in 1..MaxNode, t \in 1..MaxNode : RunBellmanFord(s, t)

SpecAlg == Init /\ [][AlgNext]_vars

TieNext ==
    \/ \E s \in 1..MaxTieNode, t \in 1..MaxTieNode, w \in TieWeights :
           AddEdge(s, t, w, MaxTieEdges)
    \/ \E s \in 1..MaxTieNode, t \in 1..MaxTieNode : RunDijkstra(s, t)
    \/ \E s \in 1..MaxTieNode, t \in 1..MaxTieNode : RunBellmanFord(s, t)

SpecTie == Init /\ [][TieNext]_vars

(***************************************************************************)
(* The Dijkstra functions of oswe-mini-secondary (routing_service/         *)
(* algorithms.py) and oswe-large-rapd-m4s90 (algorithms/dijkstra.py), on   *)
(* the same adjacency dict.  Their dist and prev are dicts read with .get: *)
(* a node without an entry has distance inf and predecessor None.  The     *)
(* heap is the set of its (cost, node) tuples.                             *)
(***************************************************************************)
\* dist = {start: 0.0}; prev = {start: None}; heap = [(0.0, start)]; visited = set()
dijkstra_start(start) ==
    [dist |-> [n \in 1..MaxNode |-> IF n = start THEN 0 ELSE Inf],
     prev |-> [n \in 1..MaxNode |-> None],
     heap |-> {<<0, start>>},
     visited |-> {}]

\* "for neighbor, weight in ...neighbors(node).items()", the same in both
RECURSIVE relax_neighbors(_, _, _, _, _)
relax_neighbors(st, cost, node, nbrs, j) ==
    IF j > Len(nbrs) THEN st
    ELSE LET neighbor == nbrs[j][1]
             new_cost == cost + nbrs[j][2]
         IN  IF new_cost < st.dist[neighbor]
             THEN relax_neighbors([st EXCEPT !.dist[neighbor] = new_cost,
                                             !.prev[neighbor] = node,
                                             !.heap = @ \cup {<<new_cost, neighbor>>}],
                                  cost, node, nbrs, j + 1)
             ELSE relax_neighbors(st, cost, node, nbrs, j + 1)

\* oswe-mini-secondary dijkstra_shortest_path: the "while heap" loop
RECURSIVE mini_dijkstra_loop(_, _, _)
mini_dijkstra_loop(a, goal, st) ==
    IF st.heap = {} THEN Raised("LookupError")
    ELSE LET top == HeapMin(st.heap)
             cost == top[1]
             node == top[2]
             popped == [st EXCEPT !.heap = @ \ {top}]
         IN  IF node \in st.visited THEN mini_dijkstra_loop(a, goal, popped)
             ELSE LET fin == [popped EXCEPT !.visited = @ \cup {node}]
                  IN  IF node = goal
                      THEN Returned(Reverse(WalkPrev(fin.prev, goal, MaxNode + 1)),
                                    cost, {})
                      ELSE IF cost > fin.dist[node]
                      THEN mini_dijkstra_loop(a, goal, fin)
                      ELSE mini_dijkstra_loop(a, goal,
                               relax_neighbors(fin, cost, node, neighbors(a, node), 1))

\* oswe-mini-secondary dijkstra_shortest_path
mini_dijkstra_shortest_path(a, start, goal) ==
    IF has_negative_weights(a) THEN Raised("ValidationError")
    ELSE mini_dijkstra_loop(a, goal, dijkstra_start(start))

\* oswe-large shortest_path: the "while heap" loop
RECURSIVE shortest_path_loop(_, _, _)
shortest_path_loop(a, goal, st) ==
    IF st.heap = {} THEN Raised("ValueError")
    ELSE LET top == HeapMin(st.heap)
             cost == top[1]
             node == top[2]
             popped == [st EXCEPT !.heap = @ \ {top}]
         IN  IF node \in st.visited THEN shortest_path_loop(a, goal, popped)
             ELSE LET fin == [popped EXCEPT !.visited = @ \cup {node}]
                  IN  IF node = goal
                      THEN Returned(Reverse(WalkPrev(fin.prev, goal, MaxNode + 1)),
                                    cost, {})
                      ELSE shortest_path_loop(a, goal,
                               relax_neighbors(fin, cost, node, neighbors(a, node), 1))

\* oswe-large shortest_path
shortest_path(a, start, goal) ==
    IF has_negative_weights(a) THEN Raised("NegativeEdgeError")
    ELSE shortest_path_loop(a, goal, dijkstra_start(start))

RunMiniDijkstra(start, goal) ==
    /\ call.alg = "none"
    /\ call' = [alg |-> "mini_dijkstra", start |-> start, goal |-> goal]
                 @@ mini_dijkstra_shortest_path(adj, start, goal)
    /\ UNCHANGED <<adj, engVars, svcVars, unitVars, now>>

RunLargeDijkstra(start, goal) ==
    /\ call.alg = "none"
    /\ call' = [alg |-> "large_dijkstra", start |-> start, goal |-> goal]
                 @@ shortest_path(adj, start, goal)
    /\ UNCHANGED <<adj, engVars, svcVars, unitVars, now>>

\* the three Dijkstra implementations on every graph of the bounds, for
\* every start and goal, whether nodes of the graph or not
DijkstrasNext ==
    \/ \E s \in 1..MaxNode, t \in 1..MaxNode, w \in Weights : AddEdge(s, t, w, MaxEdges)
    \/ \E s \in 1..MaxNode, t \in 1..MaxNode : RunDijkstra(s, t)
    \/ \E s \in 1..MaxNode, t \in 1..MaxNode : RunMiniDijkstra(s, t)
    \/ \E s \in 1..MaxNode, t \in 1..MaxNode : RunLargeDijkstra(s, t)

SpecDijkstras == Init /\ [][DijkstrasNext]_vars

(***************************************************************************)
(* RoutingEngine (greenfield_v2) under sequential compute_route calls.     *)
(* eng_calls records every call: the request, the clock when it started    *)
(* and when it returned, the reference it returned, the response as it     *)
(* was when returned, and what the call invoked.                           *)
(***************************************************************************)
MaxCalls == 2
TickStep == 150
MaxNow == 450
RequestIds == {1, 2}
GraphIds == 1..Len(GraphData)
EngineGoals == {3}
Hints == {"auto", "dijkstra", "bellman_ford"}
\* what the environment does during one call: the loader at each attempt,
\* and whether the computation runs over request.timeout_ms
Environments ==
    {[script |-> <<"ok", "ok", "ok">>, timed_out |-> FALSE],
     [script |-> <<"IOError", "ok", "ok">>, timed_out |-> FALSE],
     [script |-> <<"IOError", "IOError", "IOError">>, timed_out |-> FALSE],
     [script |-> <<"GraphValidationError", "ok", "ok">>, timed_out |-> FALSE],
     [script |-> <<"ok", "ok", "ok">>, timed_out |-> TRUE]}

\* time passes between calls
Tick ==
    /\ now + TickStep <= MaxNow
    /\ now' = now + TickStep
    /\ UNCHANGED <<algVars, engVars, svcVars, unitVars>>

ComputeRoute(request, script, timed_out) ==
    /\ Len(eng_calls) < MaxCalls
    /\ \E r \in {compute_route(eng_cache, eng_breaker, eng_objs, now, request, script,
                               timed_out)} :
           /\ eng_cache' = r.cache
           /\ eng_breaker' = r.breaker
           /\ eng_objs' = r.objs
           /\ now' = r.now
           /\ eng_calls' = Append(eng_calls,
                  [request |-> request, time |-> now, done |-> r.now,
                   response |-> r.response, returned |-> r.objs[r.response],
                   load_outcome |-> r.load_outcome, timed_out |-> timed_out,
                   loader_calls |-> r.loader_calls,
                   algorithm_calls |-> r.algorithm_calls])
    /\ UNCHANGED <<algVars, svcVars, unitVars>>

EngineNext ==
    \/ \E request_id \in RequestIds, graph_id \in GraphIds, goal_node \in EngineGoals,
          algorithm_hint \in Hints, env \in Environments :
           ComputeRoute([request_id |-> request_id, graph_id |-> graph_id,
                         start_node |-> 1, goal_node |-> goal_node,
                         algorithm_hint |-> algorithm_hint, validate_result |-> TRUE],
                        env.script, env.timed_out)
    \/ Tick

SpecEngine == Init /\ [][EngineNext]_vars

(***************************************************************************)
(* The same RoutingEngine when the caller also chooses the request's       *)
(* validate_result flag, and may ask for the route from A to A.            *)
(***************************************************************************)
ValidationRequestIds == {1}
ValidationGoals == {1, 3}

ValidationNext ==
    \/ \E request_id \in ValidationRequestIds, graph_id \in GraphIds,
          goal_node \in ValidationGoals, algorithm_hint \in Hints,
          validate_result \in BOOLEAN, env \in Environments :
           ComputeRoute([request_id |-> request_id, graph_id |-> graph_id,
                         start_node |-> 1, goal_node |-> goal_node,
                         algorithm_hint |-> algorithm_hint,
                         validate_result |-> validate_result],
                        env.script, env.timed_out)
    \/ Tick

SpecValidation == Init /\ [][ValidationNext]_vars

(***************************************************************************)
(* RoutingService (routing_v2) under sequential calls.  svc_last is the    *)
(* latest call with its arguments and what it returned.                    *)
(***************************************************************************)
MaxServiceCalls == 2
ServiceGraphs == {ExampleGraph, NegativeCycleGraph, PositiveGraph, HiddenCycleGraph}
ServiceGoals == {2, 3}
SlowScripts == {<<FALSE, FALSE, FALSE>>, <<TRUE, FALSE, FALSE>>, <<TRUE, TRUE, TRUE>>}

ComputeShortestPath(es, start, goal, request_id, algorithm_hint, slow) ==
    /\ svc_count < MaxServiceCalls
    /\ \E r \in {compute_shortest_path(svc_cache, svc_access_times, now, es, start, goal,
                                      request_id, algorithm_hint, slow)} :
           /\ svc_cache' = r.cache
           /\ svc_access_times' = r.access_times
           /\ svc_last' = [op |-> "compute_shortest_path", graph |-> es,
                           start |-> start, goal |-> goal, request_id |-> request_id,
                           algorithm_hint |-> algorithm_hint, slow |-> slow,
                           result |-> Some(r.result), selected |-> r.selected,
                           algorithm_calls |-> r.algorithm_calls, sleeps |-> r.sleeps,
                           raised |-> "none", removed |-> 0]
    /\ svc_count' = svc_count + 1
    /\ UNCHANGED <<algVars, engVars, unitVars, now>>

CleanupExpiredCache ==
    /\ svc_count < MaxServiceCalls
    /\ \E r \in {cleanup_expired_cache(svc_cache, svc_access_times, now)} :
           /\ svc_cache' = r.cache
           /\ svc_access_times' = r.access_times
           /\ svc_last' = [NoServiceCall EXCEPT !.op = "cleanup_expired_cache",
                                                !.raised = r.raised,
                                                !.removed = r.removed]
    /\ svc_count' = svc_count + 1
    /\ UNCHANGED <<algVars, engVars, unitVars, now>>

ServiceNext ==
    \/ \E es \in ServiceGraphs, goal \in ServiceGoals, request_id \in RequestIds,
          algorithm_hint \in Hints, slow \in SlowScripts :
           ComputeShortestPath(es, 1, goal, request_id, algorithm_hint, slow)
    \/ CleanupExpiredCache
    \/ Tick

SpecService == Init /\ [][ServiceNext]_vars

(***************************************************************************)
(* An IdempotencyCache on its own, under sequential get and put calls.     *)
(* idc_used numbers the calls and keeps, per key, the number of the call   *)
(* that last used it: a put, or a get that hit.                            *)
(***************************************************************************)
MaxCacheOps == 5
CacheResults == {1, 2}
CacheTtls == {Nothing, Some(TickStep)}

\* cache.put(request_id, result, ttl, graph_id=..., start=..., goal=...)
CachePut(cache_key, result, ttl) ==
    /\ idc_steps < MaxCacheOps
    /\ idc' = put(idc, cache_key, cache_key[1], result, ttl, now)
    /\ idc_used' = [idc_used EXCEPT ![cache_key] = idc_steps + 1]
    /\ idc_steps' = idc_steps + 1
    /\ idc_last' = [op |-> "put", key |-> cache_key, before |-> idc,
                    used |-> idc_used, time |-> now, result |-> Nothing]
    /\ UNCHANGED <<algVars, engVars, svcVars, schedVars, routerVars, aptVars, aptThreadVars, brkVars, now>>

\* cache.get(request_id, graph_id=..., start=..., goal=...)
CacheGet(cache_key) ==
    /\ idc_steps < MaxCacheOps
    /\ \E r \in {cache_get(idc, cache_key, now)} :
           /\ idc' = r.cache
           /\ idc_used' = IF r.result # Nothing
                          THEN [idc_used EXCEPT ![cache_key] = idc_steps + 1]
                          ELSE idc_used
           /\ idc_last' = [op |-> "get", key |-> cache_key, before |-> idc,
                           used |-> idc_used, time |-> now, result |-> r.result]
    /\ idc_steps' = idc_steps + 1
    /\ UNCHANGED <<algVars, engVars, svcVars, schedVars, routerVars, aptVars, aptThreadVars, brkVars, now>>

CacheNext ==
    \/ \E cache_key \in CacheKeys, result \in CacheResults, ttl \in CacheTtls :
           CachePut(cache_key, result, ttl)
    \/ \E cache_key \in CacheKeys : CacheGet(cache_key)
    \/ Tick

SpecCache == Init /\ [][CacheNext]_vars

\* cache.clear()
CacheClear ==
    /\ idc_steps < MaxCacheOps
    /\ idc' = clear(idc)
    /\ idc_used' = [k \in CacheKeys |-> 0]
    /\ idc_steps' = idc_steps + 1
    /\ idc_last' = [op |-> "clear", key |-> <<>>, before |-> idc,
                    used |-> idc_used, time |-> now, result |-> Nothing]
    /\ UNCHANGED <<algVars, engVars, svcVars, schedVars, routerVars, aptVars, aptThreadVars, brkVars, now>>

\* the cache under get, put and clear calls
CacheClearNext ==
    \/ \E cache_key \in CacheKeys, result \in CacheResults, ttl \in CacheTtls :
           CachePut(cache_key, result, ttl)
    \/ \E cache_key \in CacheKeys : CacheGet(cache_key)
    \/ CacheClear
    \/ Tick

SpecCacheClear == Init /\ [][CacheClearNext]_vars

(***************************************************************************)
(* The engine's CircuitBreaker on its own, under sequential calls: direct  *)
(* circuit_breaker.call(func) calls and calls of the retry-wrapped         *)
(* _load_graph_resilient.  brk_last lists the attempts of the latest call  *)
(* and, next to each, brk_seen as it stood after the attempt.              *)
(***************************************************************************)
MaxBreakerSteps == 5
BreakerTickStep == 30
MaxBreakerNow == 150
FuncOutcomes == {"ok", "IOError", "KeyError"}
LoaderOutcomes == {"ok", "IOError", "TransientError", "KeyError"}
\* what the loader does at each attempt; attempts the retry loop cannot
\* reach are fixed to "ok"
LoaderScripts ==
    {s \in {<<a, b, c>> : a \in LoaderOutcomes, b \in LoaderOutcomes,
                          c \in {"ok", "IOError"}} :
        /\ s[1] \notin retry_exceptions => s[2] = "ok"
        /\ s[2] \notin retry_exceptions => s[3] = "ok"}

\* brk_seen after one more attempt
Account(g, a) ==
    IF ~a.invoked THEN g
    ELSE [streak |-> IF a.outcome = "ok" THEN 0
                     ELSE IF a.outcome \in expected_exceptions THEN g.streak + 1
                     ELSE g.streak,
          trial_calls |-> IF a.before.state = "OPEN" THEN 1
                          ELSE IF a.before.state = "HALF_OPEN" THEN g.trial_calls + 1
                          ELSE g.trial_calls,
          trials |-> g.trials + (IF a.before.state = "OPEN" THEN 1 ELSE 0),
          dispatched |-> g.dispatched + 1,
          only_failures |-> g.only_failures /\ a.outcome \in expected_exceptions]

RECURSIVE AccountAll(_, _, _)
AccountAll(g, attempts, i) ==
    IF i > Len(attempts) THEN <<>>
    ELSE LET g1 == Account(g, attempts[i])
         IN  <<g1>> \o AccountAll(g1, attempts, i + 1)

\* the bookkeeping common to both kinds of call
BreakerStep(op, attempts, outcome, done) ==
    /\ brk_steps < MaxBreakerSteps
    /\ brk' = attempts[Len(attempts)].after
    /\ \E seen \in {AccountAll(brk_seen, attempts, 1)} :
           /\ brk_seen' = seen[Len(seen)]
           /\ brk_last' = [op |-> op, attempts |-> attempts, seen |-> seen,
                           outcome |-> outcome, done |-> done]
    /\ brk_steps' = brk_steps + 1
    /\ now' = done
    /\ UNCHANGED <<algVars, engVars, svcVars, schedVars, routerVars, aptVars, aptThreadVars, cacheVars, thr_pc>>

\* circuit_breaker.call(func), where func does what outcome says
BreakerCall(outcome) ==
    \E r \in {breaker_call(brk, outcome, now)} :
        BreakerStep("call", <<Attempt(brk, r, now)>>, r.outcome, now)

\* _load_graph_resilient(graph_id) with a loader that follows the script
LoadGraphResilient(script) ==
    \E r \in {load_graph_resilient(brk, script, now)} :
        BreakerStep("load", r.attempts, r.outcome, r.now)

BreakerTick ==
    /\ now + BreakerTickStep <= MaxBreakerNow
    /\ now' = now + BreakerTickStep
    /\ UNCHANGED <<algVars, engVars, svcVars, unitVars>>

BreakerNext ==
    \/ \E outcome \in FuncOutcomes : BreakerCall(outcome)
    \/ \E script \in LoaderScripts : LoadGraphResilient(script)
    \/ BreakerTick

SpecBreaker == Init /\ [][BreakerNext]_vars

(***************************************************************************)
(* The same CircuitBreaker called from concurrent threads.  call() takes   *)
(* no lock, so a thread can be preempted between the state check (lines    *)
(* 58-66), the call of func (line 69) and _on_success / _on_failure.       *)
(* thr_pc is "idle", "entered" (past the check), or the outcome of func    *)
(* while the handler is still to run.  brk_seen.trial_calls counts the     *)
(* calls of func made while the breaker is HALF_OPEN, from 0 each time it  *)
(* turns HALF_OPEN.                                                        *)
(***************************************************************************)
MaxThreadCalls == 7

\* "if self.state == CircuitState.OPEN: ..." of call()
Enter(th) ==
    /\ thr_pc[th] = "idle"
    /\ brk_steps < MaxThreadCalls
    /\ brk_steps' = brk_steps + 1
    /\ IF brk.state = "OPEN"
       THEN IF should_attempt_reset(brk, now)
            THEN /\ brk' = [brk EXCEPT !.state = "HALF_OPEN"]
                 /\ brk_seen' = [brk_seen EXCEPT !.trial_calls = 0,
                                                 !.trials = @ + 1]
                 /\ thr_pc' = [thr_pc EXCEPT ![th] = "entered"]
            ELSE UNCHANGED <<brk, brk_seen, thr_pc>>
       ELSE /\ thr_pc' = [thr_pc EXCEPT ![th] = "entered"]
            /\ UNCHANGED <<brk, brk_seen>>
    /\ UNCHANGED <<algVars, engVars, svcVars, schedVars, routerVars, aptVars, aptThreadVars, cacheVars, brk_last, now>>

\* "result = func(*args, **kwargs)"
Invoke(th, outcome) ==
    /\ thr_pc[th] = "entered"
    /\ thr_pc' = [thr_pc EXCEPT ![th] = outcome]
    /\ brk_seen' = [brk_seen EXCEPT
                       !.dispatched = @ + 1,
                       !.trial_calls = IF brk.state = "HALF_OPEN" THEN @ + 1 ELSE @]
    /\ UNCHANGED <<algVars, engVars, svcVars, schedVars, routerVars, aptVars, aptThreadVars, cacheVars, brk, brk_last, brk_steps, now>>

\* "self._on_success(); return result", "self._on_failure(); raise", or the
\* exception that is not expected leaving call()
Leave(th) ==
    /\ thr_pc[th] \in FuncOutcomes
    /\ brk' = IF thr_pc[th] = "ok" THEN on_success(brk)
              ELSE IF thr_pc[th] \in expected_exceptions THEN on_failure(brk, now)
              ELSE brk
    /\ thr_pc' = [thr_pc EXCEPT ![th] = "idle"]
    /\ UNCHANGED <<algVars, engVars, svcVars, schedVars, routerVars, aptVars, aptThreadVars, cacheVars, brk_seen, brk_last, brk_steps,
                   now>>

ThreadsNext ==
    \/ \E th \in Threads : Enter(th)
    \/ \E th \in Threads, outcome \in FuncOutcomes : Invoke(th, outcome)
    \/ \E th \in Threads : Leave(th)
    \/ BreakerTick

SpecBreakerThreads == Init /\ [][ThreadsNext]_vars

(***************************************************************************)
(* raptor_secondary AppointmentService under sequential process() calls.   *)
(* The provider is the environment: each call is given the outcomes of its *)
(* schedule attempts (script) and of cancel.  apt_last records the latest   *)
(* call: the repository and the breaker before it, the changes it made to  *)
(* the stored state, every schedule call with the clock and the breaker at *)
(* the moment of the call, what each schedule call did (outcomes) and what *)
(* cancel did if it was called.                                            *)
(***************************************************************************)
MaxProcessCalls == 3
AptTickStep == 10
MaxAptNow == 60

ScheduleScripts ==
    { <<"CONFIRMED", "CONFIRMED", "CONFIRMED">>,
      <<"CONFIRMED_downstream_fail", "CONFIRMED", "CONFIRMED">>,
      <<"PENDING", "CONFIRMED", "CONFIRMED">>,
      <<"ProviderTimeout", "ProviderTimeout", "ProviderTimeout">>,
      <<"ProviderError", "ProviderError", "ProviderError">>,
      <<"ProviderError", "ProviderError", "CONFIRMED">>,
      <<"ProviderError", "ProviderError", "PENDING">>,
      <<"ProviderTimeout", "ProviderError", "CONFIRMED_downstream_fail">>,
      <<"ProviderError", "CONFIRMED", "CONFIRMED">>,
      <<"ProviderTimeout", "CONFIRMED_downstream_fail", "CONFIRMED">>,
      <<"REJECTED", "REJECTED", "REJECTED">>,
      <<"ProviderError", "REJECTED", "ProviderTimeout">> }

Process(request_id, script, cancel_outcome) ==
    /\ apt_steps < MaxProcessCalls
    /\ now <= MaxAptNow
    /\ \E r \in {process(apt_store, apt_outbox, apt_breaker, now, request_id, script, cancel_outcome)} :
          /\ apt_store' = IF r.idempotent_hit THEN apt_store
                          ELSE [apt_store EXCEPT ![request_id] = Some(r.appt)]
          /\ apt_outbox' = r.outbox
          /\ apt_breaker' = r.breaker
          /\ now' = r.now
          /\ apt_last' = [request_id |-> request_id, before |-> apt_store, time |-> now,
                          breaker |-> apt_breaker, changes |-> r.changes,
                          schedule_calls |-> r.schedule_calls,
                          cancel_calls |-> r.cancel_calls,
                          idempotent_hit |-> r.idempotent_hit, result |-> r.appt,
                          outcomes |-> SubSeq(script, 1, Len(r.schedule_calls)),
                          cancel_outcome |-> IF r.cancel_calls > 0 THEN cancel_outcome
                                             ELSE "none",
                          outbox |-> apt_outbox]
    /\ apt_steps' = apt_steps + 1
    /\ UNCHANGED <<algVars, engVars, svcVars, schedVars, routerVars, cacheVars, brkVars, aptThreadVars>>

\* time passes between two process calls
AptTick ==
    /\ now + AptTickStep <= MaxAptNow
    /\ now' = now + AptTickStep
    /\ UNCHANGED <<algVars, engVars, svcVars, unitVars>>

AppointmentNext ==
    \/ \E request_id \in AptRequestIds, script \in ScheduleScripts, cancel_outcome \in CancelOutcomes :
           Process(request_id, script, cancel_outcome)
    \/ AptTick

SpecAppointment == Init /\ [][AppointmentNext]_vars

(***************************************************************************)
(* AppointmentService.process called from concurrent threads.  The         *)
(* repository locks each get, save and update on its own, and process      *)
(* holds no lock across them, so a thread can be preempted between the     *)
(* lookup of line 39 and the save of line 50.  apt_pc is 0 for a thread    *)
(* outside process and otherwise the request_id for which it has found     *)
(* no appointment.  apt_seen counts per request id the appointments        *)
(* created (save), the calls that dispatched schedule, and the idempotent  *)
(* hits returned.                                                          *)
(***************************************************************************)
MaxConcurrentCalls == 3

\* "existing = self.appointments.get(req.request_id)" and the return of
\* the idempotent hit when there is one
Lookup(th, request_id) ==
    /\ apt_pc[th] = 0
    /\ apt_steps < MaxConcurrentCalls
    /\ apt_steps' = apt_steps + 1
    /\ IF apt_store[request_id] # Nothing
       THEN /\ apt_seen' = [apt_seen EXCEPT ![request_id].hits = @ + 1]
            /\ UNCHANGED apt_pc
       ELSE /\ apt_pc' = [apt_pc EXCEPT ![th] = request_id]
            /\ UNCHANGED apt_seen
    /\ UNCHANGED <<algVars, engVars, svcVars, schedVars, routerVars, cacheVars, brkVars, apt_store, apt_outbox, apt_breaker, apt_last, now>>

\* lines 50-127 run by a thread that found no appointment: save, which
\* stores a new appointment under the key whatever is there, and the rest
CreateAndRun(th, script, cancel_outcome) ==
    /\ apt_pc[th] # 0
    /\ now <= MaxAptNow
    /\ \E r \in {process([apt_store EXCEPT ![apt_pc[th]] = Nothing], apt_outbox, apt_breaker, now, apt_pc[th], script, cancel_outcome)} :
          /\ apt_store' = [apt_store EXCEPT ![apt_pc[th]] = Some(r.appt)]
          /\ apt_outbox' = r.outbox
          /\ apt_breaker' = r.breaker
          /\ now' = r.now
          /\ apt_seen' = [apt_seen EXCEPT
                             ![apt_pc[th]].created = @ + 1,
                             ![apt_pc[th]].dispatched = IF r.schedule_calls # <<>> THEN @ + 1 ELSE @]
    /\ apt_pc' = [apt_pc EXCEPT ![th] = 0]
    /\ UNCHANGED <<algVars, engVars, svcVars, schedVars, routerVars, cacheVars, brkVars, apt_last, apt_steps>>

AppointmentThreadsNext ==
    \/ \E th \in Threads, request_id \in AptRequestIds : Lookup(th, request_id)
    \/ \E th \in Threads, script \in ScheduleScripts, cancel_outcome \in CancelOutcomes :
           CreateAndRun(th, script, cancel_outcome)

SpecAppointmentThreads == Init /\ [][AppointmentThreadsNext]_vars

(***************************************************************************)
(* oswe-mini-secondary Router under sequential route calls.  The caller    *)
(* builds the Router on a graph with or without a negative weight; each    *)
(* call is given what its computation does: the outcome of the algorithm,  *)
(* the (path, cost) value it returns and the time it takes.  rt_last       *)
(* records the latest call with the Router as it was before.               *)
(***************************************************************************)
MaxRouteCalls == 3
MaxRouterNow == 6

RouteRequests ==
    [request_id : {Nothing, Some(1)}, idempotency_key : {Nothing, Some(1)},
     algorithm : {"auto", "dijkstra", "bellman-ford", "astar"}, timeout_seconds : {1}]

Computations ==
    [outcome : {"ok", "LookupError", "RuntimeError"}, elapsed : {1, 2}, value : {1, 2}]

\* Router(graph)
BuildRouter(negative) ==
    /\ rt_router = Nothing
    /\ rt_router' = Some(NewRouter(negative))
    /\ UNCHANGED <<algVars, engVars, svcVars, schedVars, cacheVars, brkVars, aptVars, aptThreadVars, rt_last, rt_steps, now>>

Route(req, comp) ==
    /\ rt_router # Nothing
    /\ rt_steps < MaxRouteCalls
    /\ now <= MaxRouterNow
    /\ \E r \in {route(rt_router[1], now, req, comp)} :
          /\ rt_router' = Some(r.router)
          /\ now' = r.now
          /\ rt_last' = [op |-> "route", before |-> rt_router[1], time |-> now,
                         request_id |-> r.request_id, key |-> r.key,
                         timeout_seconds |-> req.timeout_seconds,
                         comp |-> IF r.computed THEN computation(choose_algorithm(req.algorithm, rt_router[1].negative), rt_router[1].negative, comp) ELSE [outcome |-> "none", elapsed |-> 0, value |-> 0],
                         algorithm |-> IF r.computed THEN choose_algorithm(req.algorithm, rt_router[1].negative) ELSE "none",
                         returned |-> r.returned, raised |-> r.raised,
                         computed |-> r.computed, states |-> r.states]
    /\ rt_steps' = rt_steps + 1
    /\ UNCHANGED <<algVars, engVars, svcVars, schedVars, cacheVars, brkVars, aptVars, aptThreadVars>>

RouterNext ==
    \/ \E negative \in BOOLEAN : BuildRouter(negative)
    \/ \E req \in RouteRequests, comp \in Computations : Route(req, comp)

SpecRouter == Init /\ [][RouterNext]_vars

(***************************************************************************)
(* oswe-mini-m22a1s385 AppointmentService under sequential calls of        *)
(* create_appointment and process_outbox.  Each process_outbox call is     *)
(* given the calendar client it meets; sch_last records the store before   *)
(* the call and, item by item, the reserve calls made and how the item     *)
(* ended.                                                                  *)
(***************************************************************************)
MaxSchedulingCalls == 4
MaxScriptLen == 6

IdempotencyKeys == 1..2

MaxAttemptsChoices == {1, 2, 3}

CalendarClients ==
    {Nothing} \cup {Some(script) : script \in [1..MaxScriptLen -> {"ok", "ExternalCalendarError"}]}

CreateAppointment(idempotency_key, slot_valid, path_outcome) ==
    /\ sch_steps < MaxSchedulingCalls
    /\ \E r \in {create_appointment(sch_store, now, idempotency_key, slot_valid, path_outcome)} :
          /\ sch_store' = r.store
          /\ sch_last' = [op |-> "create_appointment", before |-> sch_store,
                          returned |-> r.returned, raised |-> r.raised]
    /\ sch_steps' = sch_steps + 1
    /\ UNCHANGED <<algVars, engVars, svcVars, cacheVars, brkVars, aptVars, aptThreadVars, routerVars, now>>

ProcessOutbox(client, max_tries) ==
    /\ sch_steps < MaxSchedulingCalls
    /\ \E r \in {process_outbox(sch_store, client, max_tries)} :
          /\ sch_store' = r.store
          /\ sch_last' = [op |-> "process_outbox", before |-> sch_store,
                          max_tries |-> max_tries, log |-> r.log]
    /\ sch_steps' = sch_steps + 1
    /\ UNCHANGED <<algVars, engVars, svcVars, cacheVars, brkVars, aptVars, aptThreadVars, routerVars, now>>

SchedulingNext ==
    \/ \E idempotency_key \in IdempotencyKeys, slot_valid \in BOOLEAN, path_outcome \in {"ok", "ValueError"} :
           CreateAppointment(idempotency_key, slot_valid, path_outcome)
    \/ \E client \in CalendarClients, max_tries \in MaxAttemptsChoices :
           ProcessOutbox(client, max_tries)

SpecScheduling == Init /\ [][SchedulingNext]_vars

(***************************************************************************)
(* Reference notions the claims are stated in: walks of the graph and      *)
(* their costs, independent of either algorithm.                           *)
(***************************************************************************)
EdgeSet(a) == LET es == edges(a) IN {es[i] : i \in 1..Len(es)}

WeightOf(a, u, v) == Get(neighbors(a, u), v, 0)

HasEdge(a, u, v) == HasKey(neighbors(a, u), v)

MinOf(S) == CHOOSE x \in S : \A y \in S : x <= y

\* one more edge: from the least costs d of walks with at most k edges to
\* those of walks with at most k + 1 edges
Extend(E, d) ==
    [n \in DOMAIN d |->
        MinOf({d[n]} \cup {Plus(d[e[1]], e[3]) : e \in {f \in E : f[2] = n}})]

\* least cost of a walk from start with at most k edges, per node
RECURSIVE MinWalk(_, _, _, _)
MinWalk(E, V, start, k) ==
    IF k <= 0 THEN [n \in V |-> IF n = start THEN 0 ELSE Inf]
    ELSE Extend(E, MinWalk(E, V, start, k - 1))

\* least cost of any walk from start, when no negative cycle is reachable
ShortestDist(a, start) == MinWalk(EdgeSet(a), KeySet(a), start, Len(a) - 1)

\* a negative-weight cycle is reachable from start: walks of |V| edges still improve
NegativeCycleReachable(a, start) ==
    LET d == ShortestDist(a, start) IN Extend(EdgeSet(a), d) # d

IsWalk(a, path) ==
    /\ Len(path) >= 1
    /\ \A i \in 1..(Len(path) - 1) : HasEdge(a, path[i], path[i + 1])

RECURSIVE WalkCost(_, _, _)
WalkCost(a, path, i) ==
    IF i >= Len(path) THEN 0
    ELSE WeightOf(a, path[i], path[i + 1]) + WalkCost(a, path, i + 1)

IsWalkFromTo(a, path, start, goal) ==
    IsWalk(a, path) /\ path[1] = start /\ path[Len(path)] = goal

HasNegativeEdge(a) == \E e \in EdgeSet(a) : e[3] < 0

InGraph(a, c) == c.start \in KeySet(a) /\ c.goal \in KeySet(a)

\* (path, cost) is a minimum-cost walk from c.start to c.goal, d being the
\* least walk costs from c.start
MinimumCostResult(a, c, d) ==
    /\ c.status = "ok"
    /\ IsWalkFromTo(a, c.path, c.start, c.goal)
    /\ c.cost = WalkCost(a, c.path, 1)
    /\ c.cost = d[c.goal]

(***************************************************************************)
(* Claims about the greenfield_v2 algorithms.                              *)
(***************************************************************************)
\* C1: on a graph of non-negative weights, a Bellman-Ford call that follows a
\* Dijkstra call with the same start and goal returns the identical path and
\* the identical cost whenever both return.
C1_SamePathAndCost ==
    [][(/\ call.alg = "dijkstra" /\ call'.alg = "bellman_ford"
        /\ call.status = "ok" /\ call'.status = "ok")
       => (call'.path = call.path /\ call'.cost = call.cost)]_vars

\* C2: on a graph of non-negative weights Dijkstra finalizes a node only with
\* its least walk cost, returns for every reachable goal, and what it returns is
\* a walk from start to goal whose cost is the sum of its edge weights and the
\* least cost of any start-to-goal walk.
C2_DijkstraMinimumCost ==
    (call.alg = "dijkstra" /\ ~HasNegativeEdge(adj) /\ InGraph(adj, call))
    => LET d == ShortestDist(adj, call.start)
       IN  /\ d[call.goal] # Inf => MinimumCostResult(adj, call, d)
           /\ call.status = "ok" => MinimumCostResult(adj, call, d)
           /\ \A f \in call.finalized : f[2] = d[f[1]]

\* a goal reached over a path of two or more edges that beats the direct edge
C2_Witness ==
    /\ call.alg = "dijkstra" /\ call.status = "ok"
    /\ Len(call.path) >= 3
    /\ HasEdge(adj, call.start, call.goal)
    /\ call.cost < WeightOf(adj, call.start, call.goal)
    /\ Cardinality(call.finalized) >= 3

\* C3: on a graph with no negative cycle reachable from start (negative edges
\* allowed) Bellman-Ford returns a minimum-cost start-to-goal walk and its cost
\* when the goal is reachable, and raises the no-path error exactly when the
\* goal's distance is infinite.
C3_BellmanFordMinimumCost ==
    (/\ call.alg = "bellman_ford" /\ InGraph(adj, call)
     /\ ~NegativeCycleReachable(adj, call.start))
    => LET d == ShortestDist(adj, call.start)
       IN  /\ d[call.goal] # Inf => MinimumCostResult(adj, call, d)
           /\ (call.status = "no_path") <=> (d[call.goal] = Inf)

\* a minimum-cost path that uses a negative edge
C3_Witness ==
    /\ call.alg = "bellman_ford" /\ call.status = "ok"
    /\ HasNegativeEdge(adj)
    /\ Len(call.path) >= 3
    /\ call.cost < 0

\* C4: Dijkstra raises the negative-weight rejection for every graph that has
\* a negative edge, wherever that edge lies, and returns no path for it.
C4_DijkstraRejectsNegative ==
    (call.alg = "dijkstra" /\ HasNegativeEdge(adj))
    => (call.status = "negative_weight" /\ call.path = <<>>)

\* the negative edge is not reachable from start
C4_Witness ==
    /\ call.alg = "dijkstra" /\ call.status = "negative_weight"
    /\ InGraph(adj, call)
    /\ \A e \in EdgeSet(adj) :
           e[3] < 0 => ShortestDist(adj, call.start)[e[1]] = Inf

\* C5: for start and goal in the graph, Bellman-Ford raises NegativeCycleError
\* exactly when a negative-weight cycle is reachable from start, and then
\* returns no (path, cost).
C5_NegativeCycleExactly ==
    (call.alg = "bellman_ford" /\ InGraph(adj, call))
    => /\ (call.status = "negative_cycle") <=> NegativeCycleReachable(adj, call.start)
       /\ NegativeCycleReachable(adj, call.start) => call.path = <<>>

\* a negative cycle of two edges, one of them not negative, and another goal
C5_Witness ==
    /\ call.alg = "bellman_ford" /\ call.status = "negative_cycle"
    /\ \E e \in EdgeSet(adj) : e[3] >= 0 /\ e[1] # e[2] /\ HasEdge(adj, e[2], e[1])
                                /\ e[3] + WeightOf(adj, e[2], e[1]) < 0
    /\ call.goal # call.start

\* C6: the cycle_cost carried by NegativeCycleError is never positive.
C6_CycleCostNonPositive ==
    (call.alg = "bellman_ford" /\ call.status = "negative_cycle")
    => call.cycle_cost <= 0

(***************************************************************************)
(* Claims about the services.                                              *)
(***************************************************************************)
ExampleAutoRequest ==
    /\ svc_last.op = "compute_shortest_path"
    /\ svc_last.graph = ExampleGraph
    /\ svc_last.start = 1 /\ svc_last.goal = 2
    /\ svc_last.algorithm_hint = "auto"

\* C7: for the example graph and the request (start=A, goal=B, hint=auto),
\* whenever not every attempt runs over the timeout, compute_shortest_path
\* returns status success with path [A,C,D,F,B] and cost 1, and the algorithm
\* it selects (on every call that is not served from the cache) is
\* bellman_ford, which it then reports as the algorithm.
C7_ExampleGraphAuto ==
    (ExampleAutoRequest /\ \E i \in 1..max_retries : ~svc_last.slow[i])
    => LET r == svc_last.result[1]
       IN  /\ r.status = "success"
           /\ r.path = Some(<<1, 3, 4, 6, 2>>)
           /\ r.cost = Some(1)
           /\ r.error_code = Nothing
           /\ ~r.cache_hit => /\ svc_last.selected = Some("bellman_ford")
                              /\ r.algorithm = Some("bellman_ford")

\* the request computed on a cache miss, after a first attempt that timed out
C7_Witness ==
    /\ ExampleAutoRequest
    /\ ~svc_last.result[1].cache_hit
    /\ svc_last.selected = Some("bellman_ford")
    /\ svc_last.result[1].status = "success"
    /\ svc_last.algorithm_calls = 2

\* a call for (A, C) on the given graph that Bellman-Ford computed: the
\* graph loaded, the hint is auto or bellman_ford, no timeout struck
CallOn(c, graph_id) ==
    /\ c.request.graph_id = graph_id
    /\ c.request.start_node = 1 /\ c.request.goal_node = 3
    /\ c.request.algorithm_hint \in {"auto", "bellman_ford"}
    /\ c.load_outcome = "ok" /\ ~c.timed_out

C9_DijkstraHintRejectsNegative ==
    (/\ svc_last.op = "compute_shortest_path"
     /\ svc_last.algorithm_hint = "dijkstra"
     /\ \E i \in 1..Len(svc_last.graph) : svc_last.graph[i][3] < 0)
    => /\ svc_last.result[1].status = "error"
       /\ svc_last.selected \in {Nothing, Some("dijkstra")}
       /\ svc_last.result[1].algorithm \in {Nothing, Some("dijkstra")}

SameFingerprint(r1, r2) ==
    /\ r1.request_id = r2.request_id
    /\ r1.graph_id = r2.graph_id
    /\ r1.start_node = r2.start_node
    /\ r1.goal_node = r2.goal_node

\* a call that computed a route with success, and a later call with the same
\* fingerprint that started within the TTL of the first one's return
WithinTtlAfterSuccess(first, second) ==
    /\ first.returned.status = "success"
    /\ first.algorithm_calls = 1
    /\ SameFingerprint(first.request, second.request)
    /\ second.time - first.done <= default_ttl

\* C10: a compute_route call with the fingerprint of an earlier call that
\* succeeded, made within the TTL, invokes neither the loader nor an
\* algorithm, and its response equals the first one's (request_id, status,
\* path, cost, algorithm_used, error) except that cache_hit is True.
C10_SecondCallFromCache ==
    \A i \in DOMAIN eng_calls : \A j \in DOMAIN eng_calls :
        (i < j /\ WithinTtlAfterSuccess(eng_calls[i], eng_calls[j]))
        => /\ eng_calls[j].loader_calls = 0
           /\ eng_calls[j].algorithm_calls = 0
           /\ eng_calls[i].returned.metadata[1].cache_hit = FALSE
           /\ eng_calls[j].returned =
                  [eng_calls[i].returned EXCEPT !.metadata =
                      Some([@[1] EXCEPT !.cache_hit = TRUE])]

\* the second call comes exactly one TTL after the first returned, with
\* another hint, and the first one had to retry the loader
C10_Witness ==
    \E i \in DOMAIN eng_calls : \E j \in DOMAIN eng_calls :
        /\ i < j /\ WithinTtlAfterSuccess(eng_calls[i], eng_calls[j])
        /\ eng_calls[j].time - eng_calls[i].done = default_ttl
        /\ eng_calls[i].loader_calls = 2
        /\ eng_calls[j].request.algorithm_hint # eng_calls[i].request.algorithm_hint
        /\ eng_calls[j].returned.metadata[1].cache_hit

\* C11: a cached response is returned only to a request whose graph
\* identity, start node, goal node and algorithm hint equal those of the
\* request that stored it: two compute_route calls that return the same
\* cache entry never differ in algorithm_hint.
C11_FingerprintCoversHint ==
    \A i \in DOMAIN eng_calls : \A j \in DOMAIN eng_calls :
        (/\ i < j
         /\ eng_calls[i].algorithm_calls = 1
         /\ eng_calls[j].returned.status = "success"
         /\ eng_calls[j].returned.metadata[1].cache_hit
         /\ eng_calls[j].response = eng_calls[i].response)
        => /\ eng_calls[j].request.graph_id = eng_calls[i].request.graph_id
           /\ eng_calls[j].request.start_node = eng_calls[i].request.start_node
           /\ eng_calls[j].request.goal_node = eng_calls[i].request.goal_node
           /\ eng_calls[j].request.algorithm_hint = eng_calls[i].request.algorithm_hint

(***************************************************************************)
(* Claims about the IdempotencyCache.                                      *)
(***************************************************************************)
\* the keys held by a cache
CachedKeys(c) == KeySet(c.entries)

\* the latest call was a put of a key the cache lacked while it held
\* maxsize entries
PutAtCapacity ==
    /\ idc_last.op = "put"
    /\ Cardinality(CachedKeys(idc_last.before)) = idc_last.before.maxsize
    /\ idc_last.key \notin CachedKeys(idc_last.before)

\* C12: a put of a new key while the cache holds maxsize entries evicts
\* exactly one entry, the one whose last use (a put, or a get that hit) is
\* the oldest, and leaves the other entries as they were; any other put
\* evicts nothing.
C12_EvictsLeastRecentlyUsed ==
    LET before == idc_last.before
        held == CachedKeys(before)
    IN  /\ PutAtCapacity
           => \E victim \in held :
                  /\ CachedKeys(idc) = (held \ {victim}) \cup {idc_last.key}
                  /\ \A k \in held : idc_last.used[victim] <= idc_last.used[k]
                  /\ \A k \in held \ {victim} :
                         Get(idc.entries, k, Nothing) = Get(before.entries, k, Nothing)
        /\ (idc_last.op = "put" /\ ~PutAtCapacity)
           => CachedKeys(idc) = held \cup {idc_last.key}
        /\ Cardinality(CachedKeys(idc)) <= idc.maxsize

\* the entry evicted was not the first one stored: an older entry survived
\* because a get or a second put had used it since
C12_Witness ==
    /\ PutAtCapacity
    /\ Keys(idc_last.before.entries)[1] \in CachedKeys(idc)
    /\ Keys(idc_last.before.entries)[2] \notin CachedKeys(idc)

\* C13: get returns the stored result of an entry whose age does not exceed
\* its TTL; for an older entry it returns None and removes the entry; for a
\* key the cache lacks it returns None.
C13_GetHonoursTtl ==
    idc_last.op = "get"
    => LET before == idc_last.before
           k == idc_last.key
           entry == Get(before.entries, k, Nothing)
       IN  IF k \notin CachedKeys(before)
           THEN idc_last.result = Nothing /\ idc = before
           ELSE IF idc_last.time - entry.timestamp <= entry.ttl
           THEN /\ idc_last.result = Some(entry.result)
                /\ idc.entries = before.entries
           ELSE /\ idc_last.result = Nothing
                /\ k \notin CachedKeys(idc)
                /\ \A i \in 1..Len(idc.access_order) : idc.access_order[i] # k
                /\ CachedKeys(idc) = CachedKeys(before) \ {k}

\* a get found an entry older than its TTL and removed it, although the call
\* before had used that entry
C13_Witness ==
    /\ idc_last.op = "get"
    /\ idc_last.key \in CachedKeys(idc_last.before)
    /\ idc_last.result = Nothing
    /\ idc_last.used[idc_last.key] = idc_steps - 1
    /\ idc_steps >= 3

(***************************************************************************)
(* Claims about the CircuitBreaker and the retry decorator.                *)
(***************************************************************************)
\* the breaker is OPEN and less than timeout_duration has passed at time t
\* since its last failure
CoolingDown(cb, t) ==
    cb.state = "OPEN" /\ t - cb.last_failure_time < timeout_duration

C15_OneTrialCall == brk_seen.trial_calls <= 1

\* an attempt that called the function while the breaker was HALF_OPEN: the
\* trial call after the cool-down, or a call that found it HALF_OPEN
TrialAttempt(a) == a.invoked /\ a.before.state \in {"OPEN", "HALF_OPEN"}

\* C16: a call that fails (with an expected exception) while HALF_OPEN
\* leaves the breaker OPEN with the cool-down counted from that failure; a
\* call that succeeds while HALF_OPEN leaves it CLOSED with failure_count 0.
C16_TrialOutcome ==
    \A i \in 1..Len(brk_last.attempts) :
        LET a == brk_last.attempts[i]
        IN  TrialAttempt(a)
            => /\ a.outcome \in expected_exceptions
                  => /\ a.after.state = "OPEN"
                     /\ a.after.last_failure_time = a.time
                     /\ CoolingDown(a.after, a.time + timeout_duration - 1)
                     /\ ~CoolingDown(a.after, a.time + timeout_duration)
               /\ a.outcome = "ok"
                  => /\ a.after.state = "CLOSED"
                     /\ a.after.failure_count = 0

\* a second trial call succeeded after the first one had failed and
\* reopened the circuit
C16_Witness ==
    /\ brk_seen.trials = 2
    /\ \E i \in 1..Len(brk_last.attempts) :
           LET a == brk_last.attempts[i]
           IN  /\ TrialAttempt(a) /\ a.outcome = "ok"
               /\ a.before.failure_count > failure_threshold
               /\ a.before.last_failure_time >= timeout_duration

\* C17: the breaker moves from CLOSED to OPEN only when failure_threshold
\* failures have occurred with no successful call between them.
C17_OpensOnConsecutiveFailures ==
    \A i \in 1..Len(brk_last.attempts) :
        LET a == brk_last.attempts[i]
        IN  (a.before.state = "CLOSED" /\ a.after.state = "OPEN")
            => brk_last.seen[i].streak >= failure_threshold

\* C19: one call of the retry-wrapped function makes at most max_attempts
\* attempts; every attempt but the last raised a retryable exception; the
\* call ends with what the last attempt did, at the time of that attempt (no
\* sleep follows it); and it ends on a retryable exception only when that
\* was attempt number max_attempts.
C19_RetryBounded ==
    brk_last.op = "load"
    => LET n == Len(brk_last.attempts)
       IN  /\ 1 <= n /\ n <= max_attempts
           /\ \A i \in 1..(n - 1) :
                  /\ brk_last.attempts[i].outcome \in retry_exceptions
                  /\ brk_last.attempts[i + 1].time > brk_last.attempts[i].time
           /\ brk_last.outcome = brk_last.attempts[n].outcome
           /\ brk_last.done = brk_last.attempts[n].time
           /\ brk_last.outcome \in retry_exceptions => n = max_attempts

\* after one retry the function raised an exception that is not retryable,
\* which ended the call at once
C19_Witness ==
    /\ brk_last.op = "load"
    /\ Len(brk_last.attempts) = 2
    /\ brk_last.attempts[2].invoked
    /\ brk_last.outcome = "KeyError"
    /\ brk_last.done = brk_last.attempts[1].time + initial_wait

\* C18: the breaker gates every attempt of AppointmentService.process: no
\* provider_client.schedule call is dispatched while the breaker holds
\* failure_threshold consecutive failures and reset_timeout_seconds has not
\* elapsed since it opened, be it a later attempt of the same retry loop or
\* a later process() call.
C18_BreakerGatesEveryAttempt ==
    \A i \in 1..Len(apt_last.schedule_calls) :
        LET c == apt_last.schedule_calls[i]
        IN  c.breaker.failures >= breaker_failure_threshold
                => c.time - c.breaker.opened_at >= reset_timeout_seconds

\* the state stored for a request id, "absent" before the first call
StoredState(store, id) == IF store[id] = Nothing THEN "absent" ELSE store[id][1].state

\* the changes logged by the latest call lead from the state it found (INIT
\* for the appointment it created) to the state now stored
ChangesAccountForStore ==
    LET ch == apt_last.changes
        id == apt_last.request_id
    IN  /\ \A i \in 1..(Len(ch) - 1) : ch[i][2] = ch[i + 1][1]
        /\ ch # <<>> => /\ ch[1][1] = "INIT"
                        /\ apt_last.before[id] = Nothing
                        /\ ch[Len(ch)][2] = StoredState(apt_store, id)
        /\ ch = <<>> => apt_store = apt_last.before
        /\ \A other \in AptRequestIds \ {id} : apt_store[other] = apt_last.before[other]

\* C20: every change of a stored appointment state made by process and
\* _compensate is listed in ALLOWED_TRANSITIONS, and COMPENSATED is
\* terminal: no process() call changes an appointment stored as COMPENSATED.
C20_OnlyAllowedTransitions ==
    apt_steps > 0 =>
        /\ ChangesAccountForStore
        /\ \A i \in 1..Len(apt_last.changes) :
               apt_last.changes[i][2] \in ALLOWED_TRANSITIONS[apt_last.changes[i][1]]
        /\ \A id \in AptRequestIds :
               StoredState(apt_last.before, id) = "COMPENSATED"
                   => apt_store[id] = apt_last.before[id]

\* a process() call for an appointment already COMPENSATED, while another
\* appointment went CONFIRMED, COMPENSATING, FAILED
C20_Witness ==
    /\ apt_last.idempotent_hit
    /\ StoredState(apt_last.before, apt_last.request_id) = "COMPENSATED"
    /\ \E id \in AptRequestIds :
           /\ StoredState(apt_store, id) = "FAILED"
           /\ apt_store[id][1].last_error = "compensation_failed"

\* the types of the outbox events of a request, in the order enqueued
RECURSIVE EventTypes(_, _)
EventTypes(outbox, id) ==
    IF outbox = <<>> THEN <<>>
    ELSE IF Head(outbox).request_id = id
         THEN <<Head(outbox).type>> \o EventTypes(Tail(outbox), id)
         ELSE EventTypes(Tail(outbox), id)

\* the latest process() call ended on a schedule call answered CONFIRMED
\* with the downstream_fail hint
DownstreamFailed ==
    /\ apt_last.outcomes # <<>>
    /\ apt_last.outcomes[Len(apt_last.outcomes)] = "CONFIRMED_downstream_fail"

\* C21: when schedule answers CONFIRMED with the downstream failure hint the
\* appointment goes CONFIRMED, COMPENSATING and then COMPENSATED if cancel
\* answers CANCELLED, FAILED otherwise; process() returns that final state,
\* and on the COMPENSATED path the outbox holds for the request an
\* AppointmentConfirmed event followed by an AppointmentCompensated event.
C21_CompensationPath ==
    DownstreamFailed =>
        LET ch == apt_last.changes
            n == Len(ch)
            id == apt_last.request_id
            final == IF apt_last.cancel_outcome = "CANCELLED" THEN "COMPENSATED" ELSE "FAILED"
        IN  /\ n >= 3
            /\ ch[n - 2] = <<"IN_PROGRESS", "CONFIRMED">>
            /\ ch[n - 1] = <<"CONFIRMED", "COMPENSATING">>
            /\ ch[n] = <<"COMPENSATING", final>>
            /\ apt_last.cancel_calls = 1
            /\ apt_last.result.state = final
            /\ apt_store[id] = Some(apt_last.result)
            /\ EventTypes(apt_outbox, id) =
                   IF final = "COMPENSATED"
                   THEN <<"AppointmentConfirmed", "AppointmentCompensated">>
                   ELSE <<"AppointmentConfirmed">>

\* a compensated appointment whose events follow those of another request
C21_Witness ==
    /\ DownstreamFailed
    /\ apt_last.result.state = "COMPENSATED"
    /\ Len(apt_last.outcomes) = 2
    /\ Len(apt_outbox) = 3

\* the latest process() call found an appointment stored for its request id
FoundStored ==
    /\ apt_steps > 0
    /\ apt_last.before[apt_last.request_id] # Nothing

\* C23: an appointment that ended FAILED is attempted again by a later
\* process() call with the same request_id: the call takes FAILED to
\* IN_PROGRESS and, the breaker allowing it, dispatches schedule again.
C23_FailedIsRetried ==
    (/\ FoundStored
     /\ StoredState(apt_last.before, apt_last.request_id) = "FAILED"
     /\ allow_request(apt_last.breaker, apt_last.time))
        => /\ apt_last.changes # <<>>
           /\ apt_last.changes[1] = <<"FAILED", "IN_PROGRESS">>
           /\ apt_last.schedule_calls # <<>>

\* number of events of the given type enqueued for a request
CountEvents(outbox, id, type) ==
    Cardinality({i \in 1..Len(outbox) : outbox[i].request_id = id /\ outbox[i].type = type})

\* C24: a process() call for a request_id with a stored appointment returns
\* idempotent_hit = True with the stored state, retry count and last error,
\* calls neither schedule nor cancel, adds no outbox event and leaves the
\* repository and the breaker as they were; so each request_id has at most
\* one AppointmentConfirmed event.
C24_IdempotentHitChangesNothing ==
    /\ FoundStored =>
           /\ apt_last.idempotent_hit
           /\ apt_last.result = apt_last.before[apt_last.request_id][1]
           /\ apt_last.schedule_calls = <<>>
           /\ apt_last.cancel_calls = 0
           /\ apt_outbox = apt_last.outbox
           /\ apt_store = apt_last.before
           /\ apt_breaker = apt_last.breaker
    /\ \A id \in AptRequestIds : CountEvents(apt_outbox, id, "AppointmentConfirmed") <= 1

\* a second process() call for a confirmed appointment whose first call
\* retried once
C24_Witness ==
    /\ FoundStored
    /\ apt_last.result.state = "CONFIRMED"
    /\ apt_last.result.retry_count = 1
    /\ CountEvents(apt_outbox, apt_last.request_id, "AppointmentConfirmed") = 1

\* C25: the lookup-or-create of process is atomic: of the concurrent
\* process() calls with one request_id at most one creates the appointment
\* and dispatches provider_client.schedule.
C25_OneCreationPerRequestId ==
    \A id \in AptRequestIds :
        /\ apt_seen[id].created <= 1
        /\ apt_seen[id].dispatched <= 1

\* the record stored for the key of the latest route call, before and after
RouteItemBefore == Get(rt_last.before.appointments, rt_last.key, RouterItem("absent", 0, NoResult))

RouteItemAfter == Get(rt_router[1].appointments, rt_last.key, RouterItem("absent", 0, NoResult))

\* the computation of the latest route call returned within timeout_seconds
ComputedInTime ==
    /\ rt_last.computed
    /\ rt_last.comp.outcome = "ok"
    /\ rt_last.comp.elapsed <= rt_last.timeout_seconds

\* C22: a route call whose idempotency key holds a FAILED record recomputes
\* (the record goes back through IN_PROGRESS) instead of returning the
\* stored failure, and when the computation succeeds it returns the computed
\* result and leaves the record SUCCEEDED with that result.
C22_FailedIsRecomputed ==
    (rt_last.op = "route" /\ RouteItemBefore.state = "failed") =>
        /\ rt_last.computed
        /\ rt_last.states[1] = "init"
        /\ rt_last.states[2] = "in_progress"
        /\ ComputedInTime =>
               /\ rt_last.raised = "none"
               /\ rt_last.returned = Some(RouteResult(rt_last.comp.value, rt_last.algorithm))
               /\ RouteItemAfter.state = "succeeded"
               /\ RouteItemAfter.result = rt_last.returned[1]

\* a successful attempt on a key whose first attempt failed
C22_Witness ==
    /\ rt_last.op = "route"
    /\ RouteItemBefore.state = "failed"
    /\ RouteItemBefore.result = RouteError("RuntimeError")
    /\ ComputedInTime
    /\ RouteItemAfter.state = "succeeded"

\* C27: a computation that finishes after timeout_seconds is not recorded as
\* a success: route raises TimeoutError, the record of the key is FAILED
\* with the error as its result, and the one event written is routing.failed.
C27_LateResultIsFailure ==
    (/\ rt_last.op = "route"
     /\ rt_last.computed
     /\ rt_last.comp.outcome = "ok"
     /\ rt_last.comp.elapsed > rt_last.timeout_seconds)
        => /\ rt_last.raised = "TimeoutError"
           /\ rt_last.returned = Nothing
           /\ RouteItemAfter.state = "failed"
           /\ RouteItemAfter.result = RouteError("TimeoutError")
           /\ rt_router[1].outbox =
                  Append(rt_last.before.outbox,
                         [request_id |-> rt_last.request_id, event |-> "routing.failed",
                          payload |-> RouteError("TimeoutError")])

\* a late computation on a key that other requests used before
C27_Witness ==
    /\ rt_last.op = "route"
    /\ rt_last.computed
    /\ rt_last.comp.outcome = "ok"
    /\ rt_last.comp.elapsed > rt_last.timeout_seconds
    /\ rt_last.raised = "TimeoutError"
    /\ RouteItemBefore.state = "failed"
    /\ Len(rt_router[1].outbox) = 3

\* the store as process_outbox leaves it when every item is delivered
StoreHadAllBeenDelivered == process_outbox(sch_last.before, Nothing, 1).store

\* C26: process_outbox gives each event at most max_attempts reserve calls,
\* removes a delivered event after its first successful reserve, and
\* dead-letters an event that exhausts its attempts: the event leaves the
\* pending outbox and its failure is preserved, so that the store tells the
\* dead-lettered event from a delivered one.
C26_DeadLetterKeepsFailure ==
    sch_last.op = "process_outbox" =>
        /\ Len(sch_last.log) = Len(sch_last.before.outbox)
        /\ sch_store.outbox = <<>>
        /\ \A i \in 1..Len(sch_last.log) :
               LET e == sch_last.log[i]
               IN  /\ e.calls <= sch_last.max_tries
                   /\ e.delivered => e.calls = e.attempts + 1 \/ e.calls = 0
                   /\ ~e.delivered => /\ e.attempts >= sch_last.max_tries
                                      /\ sch_store # StoreHadAllBeenDelivered

\* the stored or returned response passes ResultValidator.validate_path
\* against the graph the loader serves for graph_id
PassesValidator(response, graph_id) ==
    validate_path(graph_loader(graph_id), response.path[1], response.cost[1])

\* C28: every response with status success that compute_route returns, and
\* every one held in the idempotency cache, passes
\* ResultValidator.validate_path against the loaded graph.
C28_ValidatedBeforeCachedOrReturned ==
    /\ \A i \in DOMAIN eng_calls :
           eng_calls[i].returned.status = "success"
           => PassesValidator(eng_calls[i].returned, eng_calls[i].request.graph_id)
    /\ \A k \in DOMAIN eng_cache.entries :
           LET cache_key == eng_cache.entries[k][1]
               stored == eng_objs[eng_cache.entries[k][2].result]
           IN  stored.status = "success" => PassesValidator(stored, cache_key[3])

\* the latest call is compute_shortest_path on a graph that holds start and
\* goal and has a negative-weight cycle reachable from start
CycleReachableFromStart ==
    /\ svc_last.op = "compute_shortest_path"
    /\ {svc_last.start, svc_last.goal} \subseteq KeySet(post_init(svc_last.graph))
    /\ NegativeCycleReachable(post_init(svc_last.graph), svc_last.start)

\* C29: compute_shortest_path on a graph with a negative-weight cycle
\* reachable from start, start and goal both present, returns status error,
\* error_code NEG_CYCLE, path None and cost None.
C29_ReachableCycleIsNegCycle ==
    CycleReachableFromStart
    => /\ svc_last.result[1].status = "error"
       /\ svc_last.result[1].error_code = Some("NEG_CYCLE")
       /\ svc_last.result[1].path = Nothing
       /\ svc_last.result[1].cost = Nothing

\* what the selected algorithm does at an attempt that stays within the
\* timeout
Attempted ==
    IF svc_last.selected = Some("dijkstra")
    THEN dijkstra_shortest_path(post_init(svc_last.graph), svc_last.start,
                                svc_last.goal, FALSE)
    ELSE bellman_ford_shortest_path(post_init(svc_last.graph), svc_last.start,
                                    svc_last.goal, FALSE)

\* the latest call reached _compute_with_retry and its first attempt ended
\* in the algorithm reporting a negative cycle or no path
AlgorithmicErrorAtFirstAttempt ==
    /\ svc_last.op = "compute_shortest_path"
    /\ svc_last.selected # Nothing
    /\ ~svc_last.slow[1]
    /\ Attempted.status = "ValueError"

\* C30: when the algorithm reports a negative cycle or no path,
\* _compute_with_retry invokes it exactly once and never sleeps, and the
\* call ends in an error.
C30_AlgorithmicErrorIsTerminal ==
    AlgorithmicErrorAtFirstAttempt
    => /\ svc_last.algorithm_calls = 1
       /\ svc_last.sleeps = 0
       /\ svc_last.result[1].status = "error"

\* C31: the RoutingResult that compute_shortest_path returns for a call made
\* with an explicit request_id carries that request_id, whether the result
\* is computed or served from the cache.
C31_ResultCarriesRequestId ==
    svc_last.op = "compute_shortest_path"
    => svc_last.result[1].request_id = svc_last.request_id

\* the latest call reached _compute_with_retry and every one of its
\* attempts ran over config.timeout_ms
TimedOutOnEveryAttempt ==
    /\ svc_last.op = "compute_shortest_path"
    /\ svc_last.selected # Nothing
    /\ \A i \in 1..max_retries : svc_last.slow[i]

\* C32: when the computation exceeds config.timeout_ms on every attempt,
\* compute_shortest_path returns a result of status error whose error_code
\* is TIMEOUT.
C32_TimeoutIsReported ==
    TimedOutOnEveryAttempt
    => /\ svc_last.result # Nothing
       /\ svc_last.result[1].status = "error"
       /\ svc_last.result[1].error_code = Some("TIMEOUT")

\* the reported cycle followed back to its first node
ClosedCycle == Append(call.cycle, call.cycle[1])

\* C33: the cycle carried by NegativeCycleError is a closed walk of the
\* graph (every consecutive pair of its nodes, and its last node with its
\* first, is joined by an edge) and cycle_cost is the sum of the weights of
\* those edges.
C33_CycleIsClosedWalk ==
    (call.alg = "bellman_ford" /\ call.status = "negative_cycle")
    => /\ call.cycle # <<>>
       /\ IsWalk(adj, ClosedCycle)
       /\ call.cycle_cost = WalkCost(adj, ClosedCycle, 1)

\* C34: each of the three Dijkstra implementations, called with a start or
\* a goal that is not a node of the graph, fails with an error and returns
\* no path, also when start equals goal.
C34_AbsentNodeFails ==
    (call.alg \in {"dijkstra", "mini_dijkstra", "large_dijkstra"} /\ ~InGraph(adj, call))
    => /\ call.status # "ok"
       /\ call.path = <<>>

\* C35: every (path, cost) that DijkstraAlgorithm.compute or
\* BellmanFordAlgorithm.compute returns is accepted by
\* ResultValidator.validate_path on the same graph, also when start equals
\* goal.
C35_ComputedRouteValidates ==
    (call.alg \in {"dijkstra", "bellman_ford"} /\ call.status = "ok")
    => validate_path(adj, call.path, call.cost)

\* C36: after any sequence of get, put and clear calls, _access_order holds
\* exactly the keys of _cache, each once, and the cache holds at most
\* maxsize entries.
C36_OrderListMatchesEntries ==
    /\ {idc.access_order[i] : i \in 1..Len(idc.access_order)} = CachedKeys(idc)
    /\ \A i \in 1..Len(idc.access_order) : \A j \in 1..Len(idc.access_order) :
           idc.access_order[i] = idc.access_order[j] => i = j
    /\ Len(idc.entries) <= idc.maxsize

\* a put that evicts from a full cache whose LRU order had come to differ
\* from the order of insertion
C36_Witness ==
    /\ idc_last.op = "put"
    /\ Len(idc_last.before.entries) = idc_last.before.maxsize
    /\ ~HasKey(idc_last.before.entries, idc_last.key)
    /\ idc_last.before.access_order # Keys(idc_last.before.entries)
    /\ Len(idc.access_order) = idc.maxsize

\* C37: the response returned to a call that computed its route stays as it
\* was returned, whatever calls follow: cache_hit False and the same path,
\* cost and algorithm_used.
C37_HitLeavesFirstResponse ==
    \A i \in DOMAIN eng_calls :
        (eng_calls[i].returned.status = "success" /\ eng_calls[i].algorithm_calls = 1)
        => LET held == eng_objs[eng_calls[i].response]
           IN  /\ held.metadata[1].cache_hit = FALSE
               /\ held.path = eng_calls[i].returned.path
               /\ held.cost = eng_calls[i].returned.cost
               /\ held.metadata[1].algorithm_used
                      = eng_calls[i].returned.metadata[1].algorithm_used

\* C38: once a route call has returned or raised, every stored record is
\* SUCCEEDED or FAILED, never INIT or IN_PROGRESS; its result is a
\* path/cost/algorithm record exactly when it is SUCCEEDED and an error
\* record exactly when it is FAILED.
C38_RecordIsSettled ==
    rt_router # Nothing
    => \A i \in DOMAIN rt_router[1].appointments :
           LET item == rt_router[1].appointments[i][2]
           IN  /\ item.state \in {"succeeded", "failed"}
               /\ item.result.kind = "route" <=> item.state = "succeeded"
               /\ item.result.kind = "error" <=> item.state = "failed"

\* a second ValidationError on a key that had failed, while another key
\* holds a success
C38_Witness ==
    /\ rt_last.op = "route"
    /\ rt_last.raised = "ValidationError"
    /\ RouteItemBefore.state = "failed"
    /\ RouteItemAfter.state = "failed"
    /\ \E i \in DOMAIN rt_router[1].appointments :
           rt_router[1].appointments[i][2].state = "succeeded"

\* C39: the outbox holds an AppointmentCompensated event for a request_id
\* exactly when the appointment stored for it is COMPENSATED, and every
\* AppointmentCompensated event comes after an AppointmentConfirmed event
\* of the same request_id.
C39_CompensatedEventIffState ==
    /\ \A id \in AptRequestIds :
           CountEvents(apt_outbox, id, "AppointmentCompensated") > 0
           <=> StoredState(apt_store, id) = "COMPENSATED"
    /\ \A i \in 1..Len(apt_outbox) :
           apt_outbox[i].type = "AppointmentCompensated"
           => \E j \in 1..(i - 1) :
                  /\ apt_outbox[j].type = "AppointmentConfirmed"
                  /\ apt_outbox[j].request_id = apt_outbox[i].request_id

\* one appointment compensated, one whose compensation failed and one
\* confirmed and left so
C39_Witness ==
    \E a \in AptRequestIds, b \in AptRequestIds, c \in AptRequestIds :
        /\ StoredState(apt_store, a) = "COMPENSATED"
        /\ CountEvents(apt_outbox, a, "AppointmentCompensated") = 1
        /\ StoredState(apt_store, b) = "FAILED"
        /\ CountEvents(apt_outbox, b, "AppointmentConfirmed") = 1
        /\ StoredState(apt_store, c) = "CONFIRMED"

\* C40: after any sequence of compute_shortest_path and
\* cleanup_expired_cache calls, cache and cache_access_times have the same
\* keys, and cleanup_expired_cache does not raise.
C40_CacheMapsAgree ==
    /\ KeySet(svc_cache) = KeySet(svc_access_times)
    /\ svc_last.op = "cleanup_expired_cache" => svc_last.raised = "none"

====
